---- MODULE Spec2Model ----
(***************************************************************************)
(* Storage-node cache engine of the key/value cluster: the hash index,     *)
(* the LRU recency list and the hashed timing wheel, with the operations   *)
(* put / get / invalidate / advance_wheel_to_now of Cache.                 *)
(***************************************************************************)
EXTENDS Integers, Sequences, FiniteSets, TLC

\* ------------------------------------------------------------------------
\* Inputs and bounds
\* ------------------------------------------------------------------------
Keys == {"k1", "k2", "k3"}
Values == {"v1", "v2"}

\* Option<T>: None is the empty tuple, Some(x) the one-element tuple.
None == <<>>
Some(x) == <<x>>

\* capacity of the LRU (Cache::new_with_capacity, asserted > 0)
Capacity == 2
\* the wheel has 2^WheelBits slots (size.is_power_of_two() is asserted)
WheelBits == 1
WheelSize == 2 ^ WheelBits
\* milliseconds per wheel tick
TickMs == 2
\* the clock runs from 0 to MaxNow
MaxNow == 2
\* puts on a key stop once its version reaches MaxVersion
MaxVersion == 2
\* the ttl_ms arguments tried by put (None = no expiration)
Ttls == {None, Some(0), Some(1), Some(TickMs * WheelSize + 1)}

\* ------------------------------------------------------------------------
\* Small helpers for maps with a changing key set (HashMap / DashMap)
\* ------------------------------------------------------------------------
MapInsert(m, k, v) == [x \in (DOMAIN m) \cup {k} |-> IF x = k THEN v ELSE m[x]]
MapRemove(m, k) == [x \in (DOMAIN m) \ {k} |-> m[x]]
EmptyMap == [x \in {} |-> None]

RECURSIVE BitAnd(_, _)
BitAnd(a, b) ==
    IF a = 0 \/ b = 0 THEN 0
    ELSE (a % 2) * (b % 2) + 2 * BitAnd(a \div 2, b \div 2)

\* ------------------------------------------------------------------------
\* AppTime
\* ------------------------------------------------------------------------
is_before(d1, d2) == d1 < d2
\* mutant: the expiration comparison made strict
is_before_or_eq_strict(d1, d2) == is_before(d1, d2)

is_before_or_eq(d1, d2) == is_before(d1, d2) \/ d1 = d2

\* ------------------------------------------------------------------------
\* LruState: head (MRU), tail (LRU), links: key -> <<prev, next>>
\* ------------------------------------------------------------------------
LruNew == [head |-> None, tail |-> None, links |-> EmptyMap]

contains(l, key) == key \in DOMAIN l.links

detach(l, key) ==
    IF key \notin DOMAIN l.links THEN l
    ELSE
      LET prev == l.links[key][1]
          next == l.links[key][2]
          links1 == IF prev # None /\ prev[1] \in DOMAIN l.links
                    THEN [l.links EXCEPT ![prev[1]] = <<@[1], next>>]
                    ELSE l.links
          head1 == IF prev = None THEN next ELSE l.head
          links2 == IF next # None /\ next[1] \in DOMAIN links1
                    THEN [links1 EXCEPT ![next[1]] = <<prev, @[2]>>]
                    ELSE links1
          tail1 == IF next = None THEN prev ELSE l.tail
      IN [head |-> head1, tail |-> tail1, links |-> links2]

push_front(l, key) ==
    LET l1 == IF key \in DOMAIN l.links THEN detach(l, key) ELSE l
        old_head == l1.head
        links1 == MapInsert(l1.links, key, <<None, old_head>>)
        links2 == IF old_head # None /\ old_head[1] \in DOMAIN links1
                  THEN [links1 EXCEPT ![old_head[1]] = <<Some(key), @[2]>>]
                  ELSE links1
    IN [head |-> Some(key),
        tail |-> IF l1.tail = None THEN Some(key) ELSE l1.tail,
        links |-> links2]

\* pop_back is split in the key it returns and the state it leaves
pop_back_key(l) == l.tail

pop_back(l) ==
    IF l.tail = None THEN l
    ELSE
      LET lru_key == l.tail[1]
          prev == IF lru_key \in DOMAIN l.links THEN l.links[lru_key][1] ELSE None
          links1 == IF prev # None /\ prev[1] \in DOMAIN l.links
                    THEN [l.links EXCEPT ![prev[1]] = <<@[1], None>>]
                    ELSE l.links
      IN [head |-> IF prev = None THEN None ELSE l.head,
          tail |-> prev,
          links |-> MapRemove(links1, lru_key)]

\* mutant: a key already in the list keeps its place
touch_keeps_place(l, key) ==
    IF key \in DOMAIN l.links THEN l ELSE push_front(l, key)

touch(l, key) == push_front(l, key)

\* mutant: the key is unlinked but stays in the links map
lru_remove_keeps_link(l, key) ==
    IF key \notin DOMAIN l.links THEN l ELSE detach(l, key)

lru_remove(l, key) ==
    IF key \notin DOMAIN l.links THEN l
    ELSE LET l1 == detach(l, key)
         IN [l1 EXCEPT !.links = MapRemove(l1.links, key)]

\* mutant: the capacity test is off by one
over_capacity_off_by_one(l) == Cardinality(DOMAIN l.links) > Capacity + 1

over_capacity(l) == Cardinality(DOMAIN l.links) > Capacity

\* ------------------------------------------------------------------------
\* TimingWheel: slots, inverse index key -> slot, cursor (absolute tick).
\* The field at is history: the time of the last schedule call for a key
\* still registered; the code does not store it.
\* ------------------------------------------------------------------------
WheelNew(start_ms) ==
    [slots |-> [s \in 0..(WheelSize - 1) |-> {}],
     index |-> EmptyMap,
     at |-> EmptyMap,
     cursor |-> start_ms \div TickMs]

slot_for(expires_at_ms) == BitAnd(expires_at_ms \div TickMs, WheelSize - 1)

\* mutant: a rescheduled key is not taken out of its previous slot
schedule_keeps_old_slot(w, key, expires_at_ms) ==
    LET slot_idx == BitAnd(expires_at_ms \div TickMs, WheelSize - 1)
    IN IF key \in DOMAIN w.index /\ w.index[key] = slot_idx
       THEN [w EXCEPT !.at = MapInsert(w.at, key, expires_at_ms)]
       ELSE [w EXCEPT
               !.slots = [w.slots EXCEPT ![slot_idx] = @ \cup {key}],
               !.index = MapInsert(w.index, key, slot_idx),
               !.at = MapInsert(w.at, key, expires_at_ms)]

schedule(w, key, expires_at_ms) ==
    LET slot_idx == slot_for(expires_at_ms)
    IN IF key \in DOMAIN w.index
       THEN IF w.index[key] # slot_idx
            THEN [w EXCEPT
                    !.slots = [s \in DOMAIN w.slots |->
                                 IF s = slot_idx THEN (w.slots[s] \ {key}) \cup {key}
                                 ELSE IF s = w.index[key] THEN w.slots[s] \ {key}
                                 ELSE w.slots[s]],
                    !.index = MapInsert(w.index, key, slot_idx),
                    !.at = MapInsert(w.at, key, expires_at_ms)]
            ELSE [w EXCEPT !.at = MapInsert(w.at, key, expires_at_ms)]
       ELSE [w EXCEPT
               !.slots = [w.slots EXCEPT ![slot_idx] = @ \cup {key}],
               !.index = MapInsert(w.index, key, slot_idx),
               !.at = MapInsert(w.at, key, expires_at_ms)]

deschedule(w, key) ==
    IF key \in DOMAIN w.index
    THEN [w EXCEPT
            !.slots = [w.slots EXCEPT ![w.index[key]] = @ \ {key}],
            !.index = MapRemove(w.index, key),
            !.at = MapRemove(w.at, key)]
    ELSE w

\* ------------------------------------------------------------------------
\* Cache: map (the DashMap index), lru, wheel.  The operators below take and
\* return a record c = [map, lru, wheel, called, evicted, ret, ok]; called
\* (the keys the wheel handed to the callback), evicted (the keys removed for
\* capacity), ret (the Option<Arc<V>> get returns) and ok (the bool put and
\* invalidate return) are outputs of the call.
\* ------------------------------------------------------------------------
CacheEntry(value, version, expires_at) ==
    [value |-> value, version |-> version, expires_at |-> expires_at]

\* u64::saturating_add(1); the model stops far below u64::MAX
saturating_add1(v) == v + 1

\* mutant: the index entry is left in place
invalidate_keeps_entry(c, key) ==
    [c EXCEPT !.wheel = deschedule(c.wheel, key),
              !.lru = lru_remove(c.lru, key),
              !.ok = key \in DOMAIN c.map \/ key \in DOMAIN c.lru.links]

invalidate(c, key) ==
    LET w1 == deschedule(c.wheel, key)
        removed_map == key \in DOMAIN c.map
        removed_lru == key \in DOMAIN c.lru.links
    IN [c EXCEPT !.wheel = w1,
                 !.map = MapRemove(c.map, key),
                 !.lru = lru_remove(c.lru, key),
                 !.ok = removed_map \/ removed_lru]

\* lines 83-98 of put and 117-136 of get: pop the LRU tail when over
\* capacity and drop it from wheel and index unless it is the key itself
evict_after_touch(c, l1, key) ==
    LET to_evict == IF over_capacity(l1) THEN pop_back_key(l1) ELSE None
        l2 == IF over_capacity(l1) THEN pop_back(l1) ELSE l1
    IN IF to_evict # None /\ to_evict[1] # key
       THEN [c EXCEPT !.lru = l2,
                      !.wheel = deschedule(c.wheel, to_evict[1]),
                      !.map = MapRemove(c.map, to_evict[1]),
                      !.evicted = @ \cup {to_evict[1]}]
       ELSE [c EXCEPT !.lru = l2]

put(c, key, value, ttl, now_ms) ==
    LET expires_at == IF ttl # None THEN Some(now_ms + ttl[1]) ELSE None
        w1 == IF expires_at # None
              THEN schedule(c.wheel, key, expires_at[1])
              ELSE deschedule(c.wheel, key)
        m1 == IF key \in DOMAIN c.map
              THEN MapInsert(c.map, key,
                     CacheEntry(value, saturating_add1(c.map[key].version), expires_at))
              ELSE MapInsert(c.map, key, CacheEntry(value, 1, expires_at))
        c1 == [c EXCEPT !.wheel = w1, !.map = m1, !.ok = TRUE]
    IN evict_after_touch(c1, touch(c.lru, key), key)

\* mutant: an entry without expires_at is taken for expired (is_none_or
\* in place of is_some_and)
get_none_is_expired(c, key, now_ms) ==
    IF key \in DOMAIN c.map
    THEN IF c.map[key].expires_at = None
            \/ is_before_or_eq(c.map[key].expires_at[1], now_ms)
         THEN [invalidate(c, key) EXCEPT !.ret = None, !.ok = FALSE]
         ELSE LET l1 == IF contains(c.lru, key) THEN touch(c.lru, key)
                        ELSE push_front(c.lru, key)
              IN [evict_after_touch(c, l1, key) EXCEPT !.ret = Some(c.map[key].value)]
    ELSE [c EXCEPT !.ret = None]

get(c, key, now_ms) ==
    IF key \in DOMAIN c.map
    THEN IF c.map[key].expires_at # None
            /\ is_before_or_eq(c.map[key].expires_at[1], now_ms)
         THEN [invalidate(c, key) EXCEPT !.ret = None, !.ok = FALSE]
         ELSE LET l1 == IF contains(c.lru, key) THEN touch(c.lru, key)
                        ELSE push_front(c.lru, key)
              IN [evict_after_touch(c, l1, key) EXCEPT !.ret = Some(c.map[key].value)]
    ELSE [c EXCEPT !.ret = None]

len(c) == Cardinality(DOMAIN c.map)

\* mutant: every drained key is invalidated, due or not
invalidate_unverified(c, key, now_ms) ==
    IF key \in DOMAIN c.map THEN invalidate(c, key) ELSE c

\* the closure advance_wheel_to_now passes to the wheel
invalidate_if_expired(c, key, now_ms) ==
    IF key \in DOMAIN c.map
    THEN IF c.map[key].expires_at # None
            /\ is_before_or_eq(c.map[key].expires_at[1], now_ms)
         THEN invalidate(c, key)
         ELSE IF c.map[key].expires_at # None
              THEN [c EXCEPT !.wheel = schedule(c.wheel, key, c.map[key].expires_at[1])]
              ELSE c
    ELSE c

\* the for loop over the keys copied out of one slot.  The callback of a key
\* touches that key's registrations only, so the order of the copy (the
\* DashSet's iteration order) does not show in the result.
RECURSIVE drain_keys(_, _, _, _)
drain_keys(c, slot_idx, keys, target_ms) ==
    IF keys = {} THEN c
    ELSE LET k == CHOOSE x \in keys : TRUE
             c1 == [c EXCEPT !.wheel.slots[slot_idx] = @ \ {k},
                             !.wheel.index = MapRemove(@, k),
                             !.wheel.at = MapRemove(@, k),
                             !.called = @ \cup {k}]
         IN drain_keys(invalidate_if_expired(c1, k, target_ms),
                       slot_idx, keys \ {k}, target_ms)

\* mutant: the loop stops one tick early (cur + 1 < target_tick)
RECURSIVE advance_stops_early(_, _, _)
advance_stops_early(c, cur, target_ms) ==
    IF cur + 1 < target_ms \div TickMs
    THEN LET slot_idx == BitAnd(cur, WheelSize - 1)
             c1 == drain_keys(c, slot_idx, c.wheel.slots[slot_idx], target_ms)
         IN advance_stops_early([c1 EXCEPT !.wheel.cursor = cur + 1], cur + 1, target_ms)
    ELSE c

\* the while loop of advance_to, from tick cur
RECURSIVE advance_from(_, _, _)
advance_from(c, cur, target_ms) ==
    IF cur < target_ms \div TickMs
    THEN LET slot_idx == BitAnd(cur, WheelSize - 1)
             c1 == drain_keys(c, slot_idx, c.wheel.slots[slot_idx], target_ms)
         IN advance_from([c1 EXCEPT !.wheel.cursor = cur + 1], cur + 1, target_ms)
    ELSE c

advance_to(c, target_ms) == advance_from(c, c.wheel.cursor, target_ms)

advance_wheel_to_now(c, now_ms) == advance_to(c, now_ms)

\* ------------------------------------------------------------------------
\* State
\* ------------------------------------------------------------------------
VARIABLES
    map,      \* Cache.map: key -> CacheEntry
    lru,      \* Cache.lru
    wheel,    \* Cache.wheel
    now,      \* the clock, in ms
    last,     \* the last put / get / invalidate call: its arguments, what it
              \* returned and the keys it evicted for capacity
    reaped,   \* Some(keys handed to the callback) when the last cache
              \* operation was advance_wheel_to_now, None otherwise
    pin,      \* per key: Some(v) after put(k, v, None) while no put on k and
              \* no clock advance followed; Lost once k was invalidated or
              \* evicted in that span
    stamp,    \* per cached key: rank of its most recent put or successful get
    pc,       \* per thread: the step of the call it is in, "idle" between calls
    loc,      \* per thread: the arguments and local variables of its call
    shard,    \* per key: the shard of the DashMap index its hash selects
    puts,     \* per key: the puts that upserted its index entry since the key
              \* was last absent from the index (concurrent execution only)
    socks,    \* per Socket (request multiplexer): counter, pending, the
              \* outbound sink
    call,     \* per call of Socket::request: its position, RID, oneshot
              \* channel and result
    fan,      \* the call of request_all_race_first_abort_rest and of the
              \* router function around it
    topo,     \* the master's view of the cluster: the hash ring (ring,
              \* real_nodes), the groups (nodes), nodes_registry, the handle
              \* of each connection, and what the last use case returned
    stores    \* per Socket: key -> value in the cache of the storage node at
              \* the other end of the connection

vars == <<map, lru, wheel, now, last, reaped, pin, stamp, pc, loc, shard, puts,
          socks, call, fan, topo, stores>>

\* the variables of the storage nodes: the cache engine of one node, and
\* what the node behind each connection holds
cachevars == <<map, lru, wheel, now, last, reaped, pin, stamp, pc, loc, shard, puts,
               stores>>

Cache == [map |-> map, lru |-> lru, wheel |-> wheel,
          called |-> {}, evicted |-> {}, ret |-> None, ok |-> FALSE]

Call(op, key, val, deadline, c) ==
    [op |-> op, key |-> key, val |-> val, deadline |-> deadline,
     ret |-> c.ret, ok |-> c.ok, evicted |-> c.evicted]

Lost == <<"lost", "lost">>

\* rank k as the most recently used of the keys in cached
Use(st, k, cached) ==
    LET old == IF k \in cached THEN st[k] ELSE 0
        others == {x \in cached \ {k} : st[x] > 0}
    IN [x \in Keys |->
          IF x = k THEN Cardinality(others) + 1
          ELSE IF x \notin cached THEN 0
          ELSE IF old > 0 /\ st[x] > old THEN st[x] - 1
          ELSE st[x]]

\* ranks of the keys still cached, made dense again
Compact(st, cached) ==
    [x \in Keys |->
       IF x \in cached /\ st[x] > 0
       THEN Cardinality({y \in cached : st[y] > 0 /\ st[y] <= st[x]})
       ELSE 0]

Unpinned(p, gone) ==
    [x \in Keys |-> IF x \in gone /\ p[x] # None THEN Lost ELSE p[x]]

\* the threads that call the cache: two request handlers and the reaper task
Threads == {"w1", "w2", "reaper"}

NoKey == "-"
NoValue == "-"

\* the local variables of a thread between calls.  key, value, exp: the
\* arguments (exp the expires_at put computes, or the one the reaper's
\* callback read); now: the clock as the call read it; sub: the key the
\* deschedule or invalidate in progress works on; slot: the slot index read
\* from the wheel's inverse index; cur, keys: the loop variables of
\* advance_to; rets: where the calls in progress return to; guard: the key
\* whose index entry the thread holds a read guard on.
IdleLocal ==
    [key |-> NoKey, value |-> NoValue, exp |-> None, now |-> 0, sub |-> NoKey,
     slot |-> 0, cur |-> 0, keys |-> {}, rets |-> <<>>, guard |-> None]

\* the request multiplexers (one Socket per connection) and the calls of
\* Socket::request that are followed
Sockets == {"s1", "s2", "s3"}
Calls == {"c1", "c2", "c3"}
NoSock == "-"

\* Socket::new: counter, pending, and the outbound sink tx with the lines
\* written to it (open is FALSE once the receiving end is gone)
SocketNew == [counter |-> 1, pending |-> EmptyMap, open |-> TRUE, outbox |-> <<>>]

\* a SocketResult<ResponseData>: tag is "Ok" or the SocketError variant,
\* "none" while there is no result; req_id, code and payload are the fields
\* of the ResponseData, or the id and text an error carries
Result(tag, req_id, code, payload) ==
    [tag |-> tag, req_id |-> req_id, code |-> code, payload |-> payload]
NoResult == Result("none", "", 0, "")

\* a call of Socket::request before it starts: pc its position, action the
\* action of its input, n the counter value it drew and rid its decimal
\* string, tx the sender of its oneshot channel ("none" before the channel
\* exists, "alive", "used" once it sent, "dropped"), chan the value in the
\* channel, out what the call returned
IdleCall ==
    [pc |-> "idle", sock |-> NoSock, action |-> "", n |-> 0, rid |-> "",
     tx |-> "none", chan |-> None, out |-> NoResult]

\* what a router function or a use case hands back: Ok or Err, the AppError
\* variant, the success flag of the use case output, and the text carried
Reply(kind, error, success, text) ==
    [kind |-> kind, error |-> error, success |-> success, text |-> text]

NoReply == Reply("none", "", FALSE, <<>>)

\* no fan-out in progress: members are the spawned tasks, ready the tasks in
\* the order in which they finished, joined how many of them join_next has
\* handed out, last_err the variable of that name, out what the dispatcher
\* returned, reply what the router handed to the client, input the request
\* of the client and hash what create_hash gave for its key
FanIdle ==
    [pc |-> "idle", action |-> "", members |-> {}, ready |-> <<>>, joined |-> 0,
     last_err |-> NoResult, out |-> NoResult, reply |-> NoReply,
     input |-> None, hash |-> None]

\* the connections the master accepts, and the ids and node types their
\* first line may announce
Conns == {"x1", "x2", "x3", "x4"}

Ids == {"m1", "m2", "r1"}

NodeTypes == {"Master", "Replica", "Client"}

\* AppNetworkNode of a connection: node_id, master_id, and whether the
\* connection is open; NoHandle before the connection is accepted
NoHandle == [node_id |-> "", master_id |-> None, node_type |-> "", open |-> FALSE]

\* DashmapConsistentHasherService::new, TcpNetworkService::from_state and
\* AppNetworkState::new: everything empty
TopoNew ==
    [ring |-> EmptyMap, real_nodes |-> {}, nodes |-> EmptyMap,
     nodes_registry |-> EmptyMap, handles |-> [c \in Conns |-> NoHandle],
     ret |-> NoReply]

\* the state Cache::new_with_capacity and Socket::new leave, no call in
\* progress
InitCache ==
    /\ map = EmptyMap
    /\ lru = LruNew
    /\ wheel = WheelNew(0)
    /\ now = 0
    /\ last = Call("none", None, None, None, Cache)
    /\ reaped = None
    /\ pin = [k \in Keys |-> None]
    /\ stamp = [k \in Keys |-> 0]
    /\ pc = [t \in Threads |-> "idle"]
    /\ loc = [t \in Threads |-> IdleLocal]
    /\ puts = [k \in Keys |-> 0]
    /\ socks = [s \in Sockets |-> SocketNew]
    /\ call = [c \in Calls |-> IdleCall]
    /\ fan = FanIdle
    /\ topo = TopoNew
    /\ stores = [s \in Sockets |-> EmptyMap]

Init ==
    /\ InitCache
    /\ shard = [k \in Keys |-> 0]

\* ------------------------------------------------------------------------
\* Sequential execution: every call runs to completion before the next.
\* track names the history variables a specification keeps (last, reaped,
\* pin); the others stay as Init left them.
\* ------------------------------------------------------------------------
DoPut(k, v, ttl, track) ==
    /\ k \in DOMAIN map => map[k].version < MaxVersion
    /\ LET c == put(Cache, k, v, ttl, now)
       IN /\ map' = c.map
          /\ lru' = c.lru
          /\ wheel' = c.wheel
          /\ stamp' = Compact(Use(stamp, k, DOMAIN map), DOMAIN c.map)
          /\ last' = IF "last" \in track
                     THEN Call("put", Some(k), Some(v),
                               IF ttl = None THEN None ELSE Some(now + ttl[1]), c)
                     ELSE last
          /\ pin' = IF "pin" \in track
                    THEN [Unpinned(pin, c.evicted) EXCEPT
                            ![k] = IF ttl = None THEN Some(v) ELSE None]
                    ELSE pin
    /\ reaped' = None
    /\ UNCHANGED <<now, pc, loc, shard, stores, puts, socks, call, fan, topo>>

DoGet(k, track) ==
    /\ LET c == get(Cache, k, now)
       IN /\ map' = c.map
          /\ lru' = c.lru
          /\ wheel' = c.wheel
          /\ stamp' = IF c.ret # None
                      THEN Compact(Use(stamp, k, DOMAIN map), DOMAIN c.map)
                      ELSE Compact(stamp, DOMAIN c.map)
          /\ last' = IF "last" \in track
                     THEN Call("get", Some(k), None, None, c) ELSE last
          /\ pin' = IF "pin" \in track THEN Unpinned(pin, c.evicted) ELSE pin
    /\ reaped' = None
    /\ UNCHANGED <<now, pc, loc, shard, stores, puts, socks, call, fan, topo>>

DoInvalidate(k, track) ==
    /\ LET c == invalidate(Cache, k)
       IN /\ map' = c.map
          /\ lru' = c.lru
          /\ wheel' = c.wheel
          /\ stamp' = Compact(stamp, DOMAIN c.map)
          /\ last' = IF "last" \in track
                     THEN Call("invalidate", Some(k), None, None, c) ELSE last
          /\ pin' = IF "pin" \in track THEN Unpinned(pin, {k}) ELSE pin
    /\ reaped' = None
    /\ UNCHANGED <<now, pc, loc, shard, stores, puts, socks, call, fan, topo>>

DoAdvance(track) ==
    /\ LET c == advance_wheel_to_now(Cache, now)
       IN /\ map' = c.map
          /\ lru' = c.lru
          /\ wheel' = c.wheel
          /\ stamp' = Compact(stamp, DOMAIN c.map)
          /\ reaped' = IF "reaped" \in track THEN Some(c.called) ELSE reaped
    /\ UNCHANGED <<now, last, pin, pc, loc, shard, stores, puts, socks, call, fan, topo>>

Tick(track) ==
    /\ now < MaxNow
    /\ now' = now + 1
    /\ pin' = IF "pin" \in track THEN [k \in Keys |-> None] ELSE pin
    /\ UNCHANGED <<map, lru, wheel, last, reaped, stamp, pc, loc, shard, stores, puts, socks, call, fan, topo>>

\* the arguments of put: the first key takes two values and every ttl, the
\* second one value and every ttl, the third one value and no ttl
PutArgs ==
    ({"k1"} \X Values \X Ttls) \cup ({"k2"} \X {"v1"} \X Ttls)
        \cup ({"k3"} \X {"v1"} \X {None})

Step(track) ==
    \/ \E a \in PutArgs : DoPut(a[1], a[2], a[3], track)
    \/ \E k \in Keys : DoGet(k, track)
    \/ \E k \in Keys : DoInvalidate(k, track)
    \/ DoAdvance(track)
    \/ Tick(track)

\* the calls and what they return
TrackLast == {"last"}
Next == Step(TrackLast)
Spec == Init /\ [][Next]_vars

\* the reaper's runs
TrackReaped == {"reaped"}
NextReap == Step(TrackReaped)
SpecReap == Init /\ [][NextReap]_vars

\* puts without TTL followed through the later calls
TrackPin == {"pin"}
NextPin == Step(TrackPin)
SpecPin == Init /\ [][NextPin]_vars

\* ------------------------------------------------------------------------
\* Properties of the sequential cache
\* ------------------------------------------------------------------------
\* the keys met walking the LRU list from head along next, at most n steps
RECURSIVE lru_walk(_, _, _)
lru_walk(l, cur, n) ==
    IF cur = None \/ n = 0 \/ cur[1] \notin DOMAIN l.links THEN {}
    ELSE {cur[1]} \cup lru_walk(l, l.links[cur[1]][2], n - 1)

lru_keys(l) == lru_walk(l, l.head, Cardinality(Keys))

slots_of(w, k) == {s \in DOMAIN w.slots : k \in w.slots[s]}

\* C1: in a sequential execution from an empty cache, after every completed
\* put, get, invalidate or advance_wheel_to_now, len() is at most the capacity.
C1_LenAtMostCapacity == len(Cache) <= Capacity

C1_Witness ==
    /\ last.op = "put"
    /\ last.evicted # {}
    /\ len(Cache) = Capacity

\* C2: in a sequential execution, after every completed operation the keys of
\* the index are exactly the keys of the LRU list (its links map and the
\* chain from head).
C2_IndexEqualsLru ==
    /\ DOMAIN map = DOMAIN lru.links
    /\ DOMAIN map = lru_keys(lru)

C2_Witness ==
    /\ last.op = "invalidate"
    /\ last.ok
    /\ last.key[1] \notin DOMAIN map
    /\ last.key[1] \notin DOMAIN lru.links
    /\ DOMAIN map # {}

\* C3: in a sequential execution, after every completed operation every key
\* whose index entry has expires_at set is registered in exactly one wheel
\* slot, and the inverse index maps the key to that slot.
C3_TtlKeysOnWheel ==
    \A k \in DOMAIN map :
        map[k].expires_at # None =>
            /\ k \in DOMAIN wheel.index
            /\ slots_of(wheel, k) = {wheel.index[k]}

C3_Witness ==
    /\ last.op = "put"
    /\ last.deadline # None
    /\ last.key[1] \in DOMAIN map
    /\ map[last.key[1]].version > 1
    /\ wheel.cursor > 0
    /\ slots_of(wheel, last.key[1]) = {slot_for(last.deadline[1])}

C5_AsStated ==
    \A k \in Keys : pin[k] # None => get(Cache, k, now).ret = pin[k]

\* C5 amended: after put(k, v, None), whatever calls follow, as long as none
\* is a put on k or an invalidate of k, k is not evicted for capacity and
\* the clock stands still, get(k) returns Some(v).
C5_UnlessRemoved ==
    \A k \in Keys :
        (pin[k] # None /\ pin[k] # Lost) => get(Cache, k, now).ret = pin[k]

C5_Witness ==
    \E k \in Keys :
        /\ pin[k] = Some("v2")
        /\ len(Cache) = Capacity
        /\ lru.tail = Some(k)
        /\ \E o \in Keys \ {k} : pin[o] = Lost
        /\ get(Cache, k, now).ret = Some("v2")

\* C6: when a put of a key not yet cached makes the cache exceed its
\* capacity, exactly one other key leaves index, LRU and wheel, and it is
\* the cached key whose most recent put or successful get is the oldest.
C6_EvictsLeastRecent ==
    [][\A a \in PutArgs :
         (/\ a[1] \notin DOMAIN map
          /\ len(Cache) = Capacity
          /\ DoPut(a[1], a[2], a[3], TrackLast))
         => \E e \in DOMAIN map :
              /\ \A o \in DOMAIN map : stamp[e] <= stamp[o]
              /\ last'.evicted = {e}
              /\ DOMAIN map' = (DOMAIN map \ {e}) \cup {a[1]}
              /\ DOMAIN lru'.links = DOMAIN map'
              /\ lru_keys(lru') = DOMAIN map'
              /\ e \notin DOMAIN wheel'.index
              /\ slots_of(wheel', e) = {}]_vars

C6_Witness ==
    /\ last.op = "put"
    /\ Cardinality(last.evicted) = 1
    /\ lru.head = last.key
    /\ \A e \in last.evicted :
         /\ e \notin DOMAIN map
         /\ e \notin DOMAIN lru.links
         /\ e \notin DOMAIN wheel.index
    /\ \E o \in DOMAIN map : map[o].expires_at # None

\* C7: after invalidate(k), get(k) returns None; len() is one less than
\* before when k was in the index and the same when it was not; the entries
\* of all other keys are as before.
C7_InvalidateFrame ==
    [][\A k \in Keys :
         DoInvalidate(k, TrackLast)
         => /\ get([Cache EXCEPT !.map = map', !.lru = lru', !.wheel = wheel'],
                   k, now').ret = None
            /\ Cardinality(DOMAIN map') =
                 IF k \in DOMAIN map THEN len(Cache) - 1 ELSE len(Cache)
            /\ \A o \in Keys \ {k} :
                 /\ o \in DOMAIN map' <=> o \in DOMAIN map
                 /\ o \in DOMAIN map => map'[o] = map[o]]_vars

C7_Witness ==
    /\ last.op = "invalidate"
    /\ last.ok
    /\ len(Cache) = Capacity - 1
    /\ get(Cache, last.key[1], now).ret = None
    /\ \E o \in DOMAIN map : map[o].version > 1

Th(t) == [map |-> map, lru |-> lru, wheel |-> wheel, l |-> loc[t], pc |-> pc[t]]

\* return from the function in progress: to the caller's next step, or out
\* of the call.  The callback of advance_to drops its guard e when it
\* returns to the for loop.
Ret(s) ==
    IF s.l.rets = <<>> THEN [s EXCEPT !.l = IdleLocal, !.pc = "idle"]
    ELSE IF Head(s.l.rets) = "adv_key"
    THEN [s EXCEPT !.pc = "adv_key",
                   !.l = [@ EXCEPT !.rets = Tail(@), !.guard = None,
                                   !.key = NoKey, !.sub = NoKey, !.exp = None]]
    ELSE [s EXCEPT !.pc = Head(s.l.rets), !.l.rets = Tail(@)]

\* TimingWheel::schedule(l.key, l.exp), step by step
schedule_step(s) ==
    LET key == s.l.key
        expires_at_ms == s.l.exp[1]
        slot_idx == slot_for(expires_at_ms)
    IN CASE s.pc = "schedule" ->
              IF key \in DOMAIN s.wheel.index
              THEN IF s.wheel.index[key] # slot_idx
                   THEN [s EXCEPT !.l.slot = s.wheel.index[key], !.pc = "sched_unslot"]
                   ELSE Ret([s EXCEPT !.wheel.at = MapInsert(@, key, expires_at_ms)])
              ELSE [s EXCEPT !.pc = "sched_index"]
         [] s.pc = "sched_unslot" ->
              [s EXCEPT !.wheel.slots[s.l.slot] = @ \ {key},
                        !.l.slot = 0,
                        !.pc = "sched_index"]
         [] s.pc = "sched_index" ->
              [s EXCEPT !.wheel.index = MapInsert(@, key, slot_idx),
                        !.wheel.at = MapInsert(@, key, expires_at_ms),
                        !.pc = "sched_slot"]
         [] s.pc = "sched_slot" ->
              Ret([s EXCEPT !.wheel.slots[slot_idx] = @ \cup {key}])

\* TimingWheel::deschedule(l.sub), step by step
deschedule_step(s) ==
    LET key == s.l.sub
    IN CASE s.pc = "deschedule" ->
              IF key \in DOMAIN s.wheel.index
              THEN [s EXCEPT !.wheel.index = MapRemove(@, key),
                             !.wheel.at = MapRemove(@, key),
                             !.l.slot = s.wheel.index[key],
                             !.pc = "desched_slot"]
              ELSE Ret(s)
         [] s.pc = "desched_slot" ->
              Ret([s EXCEPT !.wheel.slots[s.l.slot] = @ \ {key}, !.l.slot = 0])

\* Cache::invalidate(l.sub) after its deschedule
invalidate_step(s) ==
    LET key == s.l.sub
    IN CASE s.pc = "inv_map" ->
              [s EXCEPT !.map = MapRemove(@, key), !.pc = "inv_lru"]
         [] s.pc = "inv_lru" ->
              Ret([s EXCEPT !.lru = lru_remove(@, key)])

\* the critical section of the LRU mutex in put and get, and what follows:
\* the deschedule of the evicted key, then its removal from the index at
\* the step after
lru_section(s, l1, after) ==
    LET over == over_capacity(l1)
        to_evict == IF over THEN pop_back_key(l1) ELSE None
        l2 == IF over THEN pop_back(l1) ELSE l1
    IN IF to_evict # None /\ to_evict[1] # s.l.key
       THEN [s EXCEPT !.lru = l2,
                      !.l.sub = to_evict[1],
                      !.l.rets = <<after>> \o @,
                      !.pc = "deschedule"]
       ELSE Ret([s EXCEPT !.lru = l2])

\* mutant: the upsert stores version 1 also over an entry that is present
put_step_resets_version(s) ==
    CASE s.pc = "put_upsert" ->
           [s EXCEPT !.map = MapInsert(@, s.l.key, CacheEntry(s.l.value, 1, s.l.exp)),
                     !.pc = "put_lru"]
      [] s.pc = "put_lru" ->
           lru_section(s, touch(s.lru, s.l.key), "put_evict")
      [] s.pc = "put_evict" ->
           Ret([s EXCEPT !.map = MapRemove(@, s.l.sub)])

\* Cache::put(l.key, l.value, ttl) after its schedule or deschedule
put_step(s) ==
    LET key == s.l.key
    IN CASE s.pc = "put_upsert" ->
              [s EXCEPT
                 !.map = MapInsert(@, key,
                           IF key \in DOMAIN s.map
                           THEN CacheEntry(s.l.value,
                                           saturating_add1(s.map[key].version), s.l.exp)
                           ELSE CacheEntry(s.l.value, 1, s.l.exp)),
                 !.pc = "put_lru"]
         [] s.pc = "put_lru" ->
              lru_section(s, touch(s.lru, key), "put_evict")
         [] s.pc = "put_evict" ->
              Ret([s EXCEPT !.map = MapRemove(@, s.l.sub)])

\* Cache::get(l.key) with the clock read l.now
get_step(s) ==
    LET key == s.l.key
    IN CASE s.pc = "get" ->
              IF key \notin DOMAIN s.map THEN Ret(s)
              ELSE IF s.map[key].expires_at # None
                      /\ is_before_or_eq(s.map[key].expires_at[1], s.l.now)
              THEN [s EXCEPT !.l.sub = key,
                             !.l.rets = <<"inv_map">> \o @,
                             !.pc = "deschedule"]
              ELSE [s EXCEPT !.l.guard = Some(key), !.pc = "get_lru"]
         [] s.pc = "get_lru" ->
              lru_section(s, IF contains(s.lru, key) THEN touch(s.lru, key)
                             ELSE push_front(s.lru, key),
                          "get_evict")
         [] s.pc = "get_evict" ->
              Ret([s EXCEPT !.map = MapRemove(@, s.l.sub)])

\* Cache::advance_wheel_to_now: TimingWheel::advance_to(l.now) and the
\* closure it calls; k is the key the for loop takes next from its copy
advance_step(s, k) ==
    LET slot_idx == BitAnd(s.l.cur, WheelSize - 1)
        key == s.l.key
    IN CASE s.pc = "advance" ->
              [s EXCEPT !.l.cur = s.wheel.cursor, !.pc = "adv_loop"]
         [] s.pc = "adv_loop" ->
              IF s.l.cur < s.l.now \div TickMs
              THEN [s EXCEPT !.l.keys = s.wheel.slots[slot_idx], !.pc = "adv_key"]
              ELSE Ret(s)
         [] s.pc = "adv_key" ->
              IF s.l.keys = {}
              THEN [s EXCEPT !.wheel.cursor = s.l.cur + 1,
                             !.l.cur = s.l.cur + 1,
                             !.pc = "adv_loop"]
              ELSE [s EXCEPT !.wheel.slots[slot_idx] = @ \ {k},
                             !.l.keys = @ \ {k},
                             !.l.key = k,
                             !.pc = "adv_unindex"]
         [] s.pc = "adv_unindex" ->
              [s EXCEPT !.wheel.index = MapRemove(@, key),
                        !.wheel.at = MapRemove(@, key),
                        !.pc = "adv_callback"]
         [] s.pc = "adv_callback" ->
              IF key \notin DOMAIN s.map
              THEN Ret([s EXCEPT !.l.rets = <<"adv_key">> \o @])
              ELSE IF s.map[key].expires_at # None
                      /\ is_before_or_eq(s.map[key].expires_at[1], s.l.now)
              THEN [s EXCEPT !.l.sub = key,
                             !.l.rets = <<"inv_map", "adv_key">> \o @,
                             !.pc = "deschedule"]
              ELSE IF s.map[key].expires_at # None
              THEN [s EXCEPT !.l.exp = s.map[key].expires_at,
                             !.l.guard = Some(key),
                             !.l.rets = <<"adv_key">> \o @,
                             !.pc = "schedule"]
              ELSE Ret([s EXCEPT !.l.rets = <<"adv_key">> \o @])

\* the key whose index shard the next step of t locks for writing
map_write(t) ==
    CASE pc[t] = "put_upsert" -> Some(loc[t].key)
      [] pc[t] \in {"put_evict", "get_evict", "inv_map"} -> Some(loc[t].sub)
      [] OTHER -> None

\* the key whose entry of the wheel's inverse index the next step of t writes
index_write(t) ==
    CASE pc[t] \in {"sched_index", "adv_unindex"} -> Some(loc[t].key)
      [] pc[t] = "deschedule" -> Some(loc[t].sub)
      [] OTHER -> None

\* t waits for a lock: the index shard of the key it is about to write is
\* read-locked by a guard (of get, or of the reaper's callback during its
\* schedule; its own guard counts, the lock is not reentrant), or schedule
\* in another thread holds the guard prev on the inverse-index entry
Blocked(t) ==
    \/ /\ map_write(t) # None
       /\ \E u \in Threads :
            /\ loc[u].guard # None
            /\ shard[loc[u].guard[1]] = shard[map_write(t)[1]]
    \/ /\ index_write(t) # None
       /\ \E u \in Threads \ {t} :
            /\ pc[u] = "sched_unslot"
            /\ loc[u].key = index_write(t)[1]

Apply(t, s) ==
    /\ map' = s.map
    /\ lru' = s.lru
    /\ wheel' = s.wheel
    /\ loc' = [loc EXCEPT ![t] = s.l]
    /\ pc' = [pc EXCEPT ![t] = s.pc]
    /\ puts' = [k \in Keys |->
                  IF k \notin DOMAIN s.map THEN 0
                  ELSE IF pc[t] = "put_upsert" /\ loc[t].key = k THEN puts[k] + 1
                  ELSE puts[k]]
    /\ UNCHANGED <<now, last, reaped, pin, stamp, shard, stores, socks, call, fan, topo>>

\* an idle thread enters a call
Enter(t, label, l) ==
    /\ pc' = [pc EXCEPT ![t] = label]
    /\ loc' = [loc EXCEPT ![t] = l]
    /\ UNCHANGED <<map, lru, wheel, now, last, reaped, pin, stamp, shard, stores, puts, socks, call, fan, topo>>

\* put reads the clock for expires_at, then calls schedule or deschedule
StartPut(t, k, v, ttl) ==
    /\ pc[t] = "idle"
    /\ k \in DOMAIN map => map[k].version < MaxVersion
    /\ IF ttl # None
       THEN Enter(t, "schedule",
                  [IdleLocal EXCEPT !.key = k, !.value = v,
                                    !.exp = Some(now + ttl[1]),
                                    !.rets = <<"put_upsert">>])
       ELSE Enter(t, "deschedule",
                  [IdleLocal EXCEPT !.key = k, !.value = v, !.sub = k,
                                    !.rets = <<"put_upsert">>])

\* get reads the clock first
StartGet(t, k) ==
    /\ pc[t] = "idle"
    /\ Enter(t, "get", [IdleLocal EXCEPT !.key = k, !.now = now])

\* invalidate begins with the deschedule of its key
StartInvalidate(t, k) ==
    /\ pc[t] = "idle"
    /\ Enter(t, "deschedule", [IdleLocal EXCEPT !.sub = k, !.rets = <<"inv_map">>])

\* advance_wheel_to_now reads the clock, then calls advance_to
StartAdvance(t) ==
    /\ pc[t] = "idle"
    /\ Enter(t, "advance", [IdleLocal EXCEPT !.now = now])

PutStep(t) ==
    /\ pc[t] \in {"put_upsert", "put_lru", "put_evict"}
    /\ ~Blocked(t)
    /\ Apply(t, put_step(Th(t)))

GetStep(t) ==
    /\ pc[t] \in {"get", "get_lru", "get_evict"}
    /\ ~Blocked(t)
    /\ Apply(t, get_step(Th(t)))

InvalidateStep(t) ==
    /\ pc[t] \in {"inv_map", "inv_lru"}
    /\ ~Blocked(t)
    /\ Apply(t, invalidate_step(Th(t)))

ScheduleStep(t) ==
    /\ pc[t] \in {"schedule", "sched_unslot", "sched_index", "sched_slot"}
    /\ ~Blocked(t)
    /\ Apply(t, schedule_step(Th(t)))

DescheduleStep(t) ==
    /\ pc[t] \in {"deschedule", "desched_slot"}
    /\ ~Blocked(t)
    /\ Apply(t, deschedule_step(Th(t)))

AdvanceStep(t) ==
    /\ pc[t] \in {"advance", "adv_loop", "adv_key", "adv_unindex", "adv_callback"}
    /\ ~Blocked(t)
    /\ \E k \in (IF pc[t] = "adv_key" /\ loc[t].keys # {}
                 THEN loc[t].keys ELSE {NoKey}) :
         Apply(t, advance_step(Th(t), k))

\* one step of a call in progress
Run(t) ==
    \/ PutStep(t)
    \/ GetStep(t)
    \/ InvalidateStep(t)
    \/ ScheduleStep(t)
    \/ DescheduleStep(t)
    \/ AdvanceStep(t)

\* One request handler and the reaper task, the clock running: the handler
\* puts three keys (the first without TTL or with one that is due at once,
\* the second with a TTL due a tick later, the third without), gets and
\* invalidates; the reaper calls advance_wheel_to_now again and again.
ReaperKeys == {"k1", "k2"}
ReaperPutArgs ==
    ({"k1"} \X {"v1"} \X {None, Some(0)}) \cup ({"k2"} \X {"v1"} \X {Some(TickMs)})
        \cup ({"k3"} \X {"v1"} \X {None})

InitReaper ==
    /\ InitCache
    /\ shard = [k \in Keys |-> 0]

NextReaper ==
    \/ \E a \in ReaperPutArgs : StartPut("w1", a[1], a[2], a[3])
    \/ \E k \in ReaperKeys : StartGet("w1", k)
    \/ \E k \in ReaperKeys : StartInvalidate("w1", k)
    \/ StartAdvance("reaper")
    \/ \E t \in {"w1", "reaper"} : Run(t)
    \/ Tick({})

SpecReaper == InitReaper /\ [][NextReaper]_vars

\* no call is in progress
Quiet == \A t \in Threads : pc[t] = "idle"

\* C10: while the reaper keeps calling advance_wheel_to_now, every entry
\* stored with a TTL leaves the index once its expires_at has passed, also
\* when no get follows.  The reaper visits only the keys it finds in a wheel
\* slot, so whenever no call is in progress every entry with expires_at set
\* has to be in a slot: an entry that is in none is never handed to the
\* callback, however long the reaper runs.
C10_AsStated ==
    Quiet => \A k \in DOMAIN map :
                 map[k].expires_at # None => slots_of(wheel, k) # {}

\* ------------------------------------------------------------------------
\* Two request handlers that only put: both on the first key (two values,
\* with and without TTL) and on the second, so that no key is removed.
\* ------------------------------------------------------------------------
Handlers == {"w1", "w2"}

PutsArgs ==
    ({"k1"} \X Values \X {None, Some(0)}) \cup ({"k2"} \X {"v1"} \X {None})

NextPuts ==
    \/ \E t \in Handlers, a \in PutsArgs : StartPut(t, a[1], a[2], a[3])
    \/ \E t \in Handlers : PutStep(t)
    \/ \E t \in Handlers : ScheduleStep(t)
    \/ \E t \in Handlers : DescheduleStep(t)

SpecPuts == Init /\ [][NextPuts]_vars

\* C11: whatever the interleaving of puts on a key that is not removed in
\* between, the put that finds no entry stores version 1, every other put
\* stores the version it finds plus one together with its own value, and
\* the version of the entry is the number of puts that upserted it so far.
C11_NoLostIncrement ==
    [][\A t \in Handlers :
         (pc[t] = "put_upsert" /\ PutStep(t))
         => LET k == loc[t].key
            IN /\ map'[k].version =
                    IF k \in DOMAIN map THEN map[k].version + 1 ELSE 1
               /\ map'[k].value = loc[t].value
               /\ \A o \in DOMAIN map' : map'[o].version = puts'[o]]_vars

\* both handlers have upserted the first key, one over the other, and a
\* third put followed
C11_Witness ==
    /\ pc["w1"] = "put_lru" /\ loc["w1"].key = "k1"
    /\ pc["w2"] = "put_lru" /\ loc["w2"].key = "k1"
    /\ puts["k1"] = 3
    /\ map["k1"].version = 3
    /\ map["k1"].value = "v2"

\* ------------------------------------------------------------------------
\* Frames.  A line is the sequence of its blank-separated tokens, a quoted
\* payload being one token (split_message).
\* ------------------------------------------------------------------------
\* str::parse::<u16> on the code tokens that occur
parse_u16(str) ==
    CASE str = "200" -> Some(200)
      [] str = "404" -> Some(404)
      [] str = "500" -> Some(500)
      [] OTHER -> None

\* RequestData::to_string
request_to_string(id, action, payload) == <<"REQ", id, action, payload>>

\* split_once_space on the rest of a line: the text before the first blank
\* and the text after it, None when there is no blank
split_once_space(rest) ==
    IF Len(rest) >= 2 THEN Some(<<rest[1], Tail(rest)>>) ELSE None

\* parse_line: Req, Res with the id and the whole line, Other, or the error
parse_line(line) ==
    IF Len(line) >= 2 /\ line[1] = "REQ"
    THEN IF Len(line) >= 3
         THEN [kind |-> "Req", id |-> line[2], raw_response |-> line]
         ELSE [kind |-> "Err", id |-> "", raw_response |-> line]
    ELSE IF Len(line) >= 2 /\ line[1] = "RES"
    THEN IF split_once_space(Tail(line)) # None
         THEN [kind |-> "Res", id |-> split_once_space(Tail(line))[1][1],
               raw_response |-> line]
         ELSE [kind |-> "Err", id |-> "", raw_response |-> line]
    ELSE [kind |-> "Other", id |-> "", raw_response |-> line]

\* mutant: a line without a payload is taken as a response with an empty one
from_str_lenient(line) ==
    IF Len(line) < 3 THEN Result("BadMessage", "", 0, "")
    ELSE IF parse_u16(line[3]) = None THEN Result("BadRequest", "", 0, line[3])
    ELSE Result("Ok", line[2], parse_u16(line[3])[1],
                IF Len(line) < 4 THEN "" ELSE line[4])

\* ResponseData::parse / from_str
from_str(line) ==
    IF Len(line) < 4 THEN Result("BadMessage", "", 0, "")
    ELSE IF parse_u16(line[3]) = None THEN Result("BadRequest", "", 0, line[3])
    ELSE Result("Ok", line[2], parse_u16(line[3])[1], line[4])

\* ResponseData::is_success: a 2xx code
is_success(response) == response.code >= 200 /\ response.code < 300

\* ------------------------------------------------------------------------
\* Socket: request, step by step, and handle_response.  The operators take
\* and return the pair n = [socks, call].
\* ------------------------------------------------------------------------
Net == [socks |-> socks, call |-> call]

\* mutant: the counter is read but not advanced
get_new_id_load(n, c, s) ==
    [n EXCEPT !.call[c] = [@ EXCEPT !.sock = s, !.n = n.socks[s].counter,
                                    !.rid = ToString(n.socks[s].counter),
                                    !.tx = "alive", !.pc = "insert"]]

\* get_new_id (counter.fetch_add(1)) and the oneshot channel of the call
get_new_id(n, c, s) ==
    [n EXCEPT !.socks[s].counter = @ + 1,
              !.call[c] = [@ EXCEPT !.sock = s, !.n = n.socks[s].counter,
                                    !.rid = ToString(n.socks[s].counter),
                                    !.tx = "alive", !.pc = "insert"]]

\* the call has ended with result out: its receiver is dropped
Finish(n, c, out) == [n EXCEPT !.call[c].pc = "done", !.call[c].out = out]

\* mutant: a timeout empties the pending map of the socket
request_step_timeout_clears(n, c, timer) ==
    LET cl == n.call[c]
        s == cl.sock
    IN CASE cl.pc = "insert" ->
              [n EXCEPT !.socks[s].pending = MapInsert(@, cl.rid, c),
                        !.call[c].pc = "send"]
         [] cl.pc = "send" ->
              IF n.socks[s].open
              THEN [n EXCEPT !.socks[s].outbox =
                                Append(@, <<"REQ", cl.rid, cl.action, "k">>),
                             !.call[c].pc = "wait"]
              ELSE [n EXCEPT !.call[c].pc = "done",
                             !.call[c].out = Result("WriteChannelClosed", s, 0, "")]
         [] cl.pc = "wait" ->
              IF cl.chan # None
              THEN [n EXCEPT !.call[c].pc = "done", !.call[c].out = from_str(cl.chan[1])]
              ELSE IF timer
              THEN [n EXCEPT !.socks[s].pending = EmptyMap,
                             !.call[c].pc = "done",
                             !.call[c].out = Result("Timeout", cl.rid, 0, s)]
              ELSE n

\* Socket::request after get_new_id: pending.insert, tx.send, and the await
\* of timeout(max_duration, rx_resp); timer tells whether it is the timer
\* that wakes the call
request_step(n, c, timer) ==
    LET cl == n.call[c]
        s == cl.sock
    IN CASE cl.pc = "insert" ->
              LET old == IF cl.rid \in DOMAIN n.socks[s].pending
                         THEN {n.socks[s].pending[cl.rid]} \ {c} ELSE {}
              IN [n EXCEPT !.socks[s].pending = MapInsert(@, cl.rid, c),
                           !.call = [d \in Calls |->
                                       IF d = c THEN [cl EXCEPT !.pc = "send"]
                                       ELSE IF d \in old THEN [n.call[d] EXCEPT !.tx = "dropped"]
                                       ELSE n.call[d]]]
         [] cl.pc = "send" ->
              IF n.socks[s].open
              THEN [n EXCEPT !.socks[s].outbox =
                                Append(@, request_to_string(cl.rid, cl.action, "k")),
                             !.call[c].pc = "wait"]
              ELSE Finish(n, c, Result("WriteChannelClosed", s, 0, ""))
         [] cl.pc = "wait" ->
              IF cl.chan # None THEN Finish(n, c, from_str(cl.chan[1]))
              ELSE IF cl.tx = "dropped"
              THEN Finish(n, c, Result("ResponseChannelClosed", cl.rid, 0, s))
              ELSE IF timer THEN Finish(n, c, Result("Timeout", cl.rid, 0, s))
              ELSE n

\* mutant: the payload goes to the waiter that registered first, whatever
\* the id of the RES
handle_response_any(n, s, req_id, payload) ==
    IF DOMAIN n.socks[s].pending # {}
    THEN LET r == CHOOSE x \in DOMAIN n.socks[s].pending :
                    \A y \in DOMAIN n.socks[s].pending :
                       n.call[n.socks[s].pending[x]].n <= n.call[n.socks[s].pending[y]].n
             c == n.socks[s].pending[r]
         IN [n EXCEPT !.socks[s].pending = MapRemove(@, r),
                      !.call[c] = IF @.pc # "done"
                                  THEN [@ EXCEPT !.chan = Some(payload), !.tx = "used"]
                                  ELSE [@ EXCEPT !.tx = "used"]]
    ELSE n

\* Socket::handle_response: pending.remove(req_id), then tx.send(payload),
\* which fails when the receiver is gone
handle_response(n, s, req_id, payload) ==
    IF req_id \in DOMAIN n.socks[s].pending
    THEN LET c == n.socks[s].pending[req_id]
         IN [n EXCEPT !.socks[s].pending = MapRemove(@, req_id),
                      !.call[c] = IF @.pc # "done"
                                  THEN [@ EXCEPT !.chan = Some(payload), !.tx = "used"]
                                  ELSE [@ EXCEPT !.tx = "used"]]
    ELSE n

\* the reader task: parse_line, then handle_response for a Res
dispatch_line(n, s, line) ==
    LET msg == parse_line(line)
    IN IF msg.kind = "Res" THEN handle_response(n, s, msg.id, msg.raw_response)
       ELSE n

\* a step of the multiplexers: the JoinSet of a fan-out in progress queues
\* its tasks as they finish
ApplyNet(n) ==
    /\ socks' = n.socks
    /\ call' = n.call
    /\ fan' = LET ended == {c \in fan.members :
                              call[c].pc # "done" /\ n.call[c].pc = "done"}
              IN IF ended = {} THEN fan
                 ELSE [fan EXCEPT !.ready = Append(@, CHOOSE c \in ended : TRUE)]
    /\ UNCHANGED cachevars
    /\ UNCHANGED topo

\* a task calls request(action, ..) on socket s: get_new_id
RequestStart(c, s, action) ==
    /\ call[c].pc = "idle"
    /\ ApplyNet(get_new_id([Net EXCEPT !.call[c].action = action], c, s))

\* the call runs on: pending.insert, tx.send, or the value (or the closing)
\* of its channel wakes it
RequestStep(c) ==
    /\ \/ call[c].pc \in {"insert", "send"}
       \/ call[c].pc = "wait" /\ (call[c].chan # None \/ call[c].tx = "dropped")
    /\ ApplyNet(request_step(Net, c, FALSE))

\* max_duration elapses: the timer wakes the call, which finds no value
RequestTimeout(c) ==
    /\ call[c].pc = "wait"
    /\ call[c].chan = None
    /\ call[c].tx # "dropped"
    /\ ApplyNet(request_step(Net, c, TRUE))

\* the future of the call is dropped at its await (its task is aborted)
RequestCancel(c) ==
    /\ call[c].pc = "wait"
    /\ ApplyNet(Finish(Net, c, Result("cancelled", call[c].rid, 0, "")))

\* the receiving end of the outbound sink goes away (the writer task ends)
SinkClose(s) ==
    /\ socks[s].open
    /\ ApplyNet([Net EXCEPT !.socks[s].open = FALSE])

\* the reader task of socket s reads a line
Dispatch(s, line) ==
    /\ Len(line) > 0
    /\ ApplyNet(dispatch_line(Net, s, line))

\* ------------------------------------------------------------------------
\* One multiplexer under three concurrent requests; the peer sends any of
\* the lines below at any time, the sink may close, a waiting call may be
\* cancelled.
\* ------------------------------------------------------------------------
MuxLines ==
    {<<"RES", id, "200", "a">> : id \in {"1", "2", "3", "7"}}
        \cup {<<"RES", "1", "500", "a">>, <<"RES", "1", "200">>, <<"RES", "2", "abc", "a">>, <<"RES", "3">>,
              <<"PING">>, <<"REQ", "1", "GET", "k">>}

NextMux ==
    \/ \E c \in Calls : RequestStart(c, "s1", "GET")
    \/ \E c \in Calls : RequestStep(c)
    \/ \E c \in Calls : RequestTimeout(c)
    \/ \E c \in Calls : RequestCancel(c)
    \/ SinkClose("s1")
    \/ \E line \in MuxLines : Dispatch("s1", line)

SpecMux == Init /\ [][NextMux]_vars

\* the frames the peer answers with when no call is cancelled: one RES per
\* RID, a RES without a payload and a RES without a numeric code
ReplyLines ==
    {<<"RES", id, "500", "a">> : id \in {"1", "2", "3"}}
        \cup {<<"RES", "1", "200">>, <<"RES", "2", "abc", "a">>}

NextReply ==
    \/ \E c \in Calls : RequestStart(c, "s1", "GET")
    \/ \E c \in Calls : RequestStep(c)
    \/ \E c \in Calls : RequestTimeout(c)
    \/ SinkClose("s1")
    \/ \E line \in ReplyLines : Dispatch("s1", line)

\* the calls in progress may be scheduled, and a running timer elapses
SpecMuxFair ==
    /\ Init
    /\ [][NextReply]_vars
    /\ \A c \in Calls : WF_vars(RequestStep(c)) /\ WF_vars(RequestTimeout(c))

\* the multiplexer state after the step
NetNext == [socks |-> socks', call |-> call']

InFlight(cl) == cl.pc \in {"insert", "send", "wait"}

\* C12: once a call of request has ended, whatever its outcome (response
\* received, timeout, sink closed, waiter cancelled), its RID is not in the
\* pending map.
C12_AsStated ==
    \A c \in Calls :
        call[c].pc = "done" => call[c].rid \notin DOMAIN socks[call[c].sock].pending

C14_OnlyTheWaiter ==
    /\ \A line \in MuxLines :
          LET msg == parse_line(line)
              pend == socks["s1"].pending
              after == dispatch_line(Net, "s1", line)
          IN IF msg.kind = "Res" /\ msg.id \in DOMAIN pend
             THEN /\ DOMAIN after.socks["s1"].pending = DOMAIN pend \ {msg.id}
                  /\ \A r \in DOMAIN after.socks["s1"].pending :
                        after.socks["s1"].pending[r] = pend[r]
                  /\ \A d \in Calls \ {pend[msg.id]} : after.call[d] = call[d]
                  /\ call[pend[msg.id]].rid = msg.id
                  /\ call[pend[msg.id]].pc # "done"
                        => after.call[pend[msg.id]].chan = Some(line)
                  /\ call[pend[msg.id]].pc = "done"
                        => after.call[pend[msg.id]].chan = call[pend[msg.id]].chan
             ELSE after = Net
    /\ \A c \in Calls :
          call[c].chan # None
          => /\ parse_line(call[c].chan[1]).id = call[c].rid
             /\ call[c].rid \notin DOMAIN socks["s1"].pending
             /\ \A line \in MuxLines :
                   dispatch_line(Net, "s1", line).call[c].chan = call[c].chan

\* the RES of the second request was delivered to it while the first and the
\* third still wait, a RES with an unknown RID having been read before
C14_Witness ==
    /\ call["c2"].pc = "wait" /\ call["c2"].rid = "2"
    /\ call["c2"].chan = Some(<<"RES", "2", "200", "a">>)
    /\ "2" \notin DOMAIN socks["s1"].pending
    /\ call["c1"].pc = "wait" /\ call["c1"].chan = None
    /\ call["c3"].pc = "wait" /\ call["c3"].chan = None
    /\ DOMAIN socks["s1"].pending = {"1", "3"}

\* C15: a call that enters request on a multiplexer draws a RID greater than
\* every RID drawn there before it, and no two calls in flight on the same
\* multiplexer hold the same RID.
C15_UniqueIncreasing ==
    [][\A c \in Calls :
         (call[c].pc = "idle" /\ call'[c].pc # "idle")
         => /\ call'[c].rid = ToString(call'[c].n)
            /\ \A d \in Calls \ {c} :
                  (call[d].pc # "idle" /\ call[d].sock = call'[c].sock)
                  => call'[c].n > call[d].n /\ call'[c].rid # call[d].rid
            /\ \A d, f \in Calls :
                  (d # f /\ InFlight(call'[d]) /\ InFlight(call'[f])
                       /\ call'[d].sock = call'[f].sock)
                  => call'[d].rid # call'[f].rid]_vars

\* three requests in flight at once, their RIDs drawn in the order c3, c1, c2
C15_Witness ==
    /\ \A c \in Calls : call[c].pc = "wait" /\ call[c].sock = "s1"
    /\ call["c3"].rid = "1" /\ call["c1"].rid = "2" /\ call["c2"].rid = "3"
    /\ DOMAIN socks["s1"].pending = {"1", "2", "3"}

\* C16: when a call returns Timeout, every other call on the multiplexer is
\* left as it was and every other RID keeps its pending entry; each other
\* call that waits still returns what its own matching RES holds once that
\* RES is dispatched.
C16_TimeoutIsLocal ==
    [][\A c \in Calls :
         (call[c].pc = "wait" /\ call'[c].pc = "done" /\ RequestTimeout(c))
         => /\ call'[c].out.tag = "Timeout"
            /\ \A d \in Calls \ {c} : call'[d] = call[d]
            /\ \A r \in DOMAIN socks[call[c].sock].pending \ {call[c].rid} :
                  /\ r \in DOMAIN socks'[call[c].sock].pending
                  /\ socks'[call[c].sock].pending[r] = socks[call[c].sock].pending[r]
            /\ \A d \in Calls \ {c} :
                  (call[d].pc = "wait" /\ call[d].chan = None
                       /\ call[d].sock = call[c].sock /\ call[d].tx = "alive")
                  => \A line \in MuxLines :
                        (parse_line(line).kind = "Res" /\ parse_line(line).id = call[d].rid)
                        => LET got == dispatch_line(NetNext, call[d].sock, line)
                               ret == request_step(got, d, FALSE)
                           IN /\ got.call[d].chan = Some(line)
                              /\ ret.call[d].pc = "done"
                              /\ ret.call[d].out = from_str(line)]_vars

\* the first request has timed out; the second, in flight at that time, has
\* returned the response of its own RES, and the third still waits
C16_Witness ==
    /\ call["c1"].out = Result("Timeout", "1", 0, "s1")
    /\ call["c2"].out = Result("Ok", "2", 200, "a")
    /\ call["c3"].pc = "wait" /\ call["c3"].rid = "3" /\ call["c3"].chan = None
    /\ "3" \in DOMAIN socks["s1"].pending

\* ------------------------------------------------------------------------
\* The fan-out dispatcher and the router functions above it.  The task of
\* member socket s1 is the call c1, of s2 c2, of s3 c3.
\* ------------------------------------------------------------------------
SockOf(c) == CASE c = "c1" -> "s1" [] c = "c2" -> "s2" [] c = "c3" -> "s3"

\* SocketError::to_string, kept as the variant and its fields
error_to_string(err) == <<err.tag, err.req_id, err.payload>>

\* mutant: tasks are spawned without looking at the number of sockets
race_spawn_unguarded(f, group, action) ==
    [f EXCEPT !.pc = "join", !.action = action,
              !.members = {c \in Calls : SockOf(c) \in group}]

\* request_all_race_first_abort_rest up to the loop: no socket is an error,
\* otherwise one task per socket is spawned
race_spawn(f, group, action) ==
    IF group = {}
    THEN [f EXCEPT !.pc = "done", !.action = action,
                   !.out = Result("ConnectionError", "", 0, "no hay sockets")]
    ELSE [f EXCEPT !.pc = "join", !.action = action,
                   !.members = {c \in Calls : SockOf(c) \in group}]

\* mutant: the first error is kept
race_join_keeps_first(f, calls) ==
    LET c == f.ready[f.joined + 1]
        joined == calls[c].out
    IN IF joined.tag = "Ok"
       THEN [f EXCEPT !.pc = "done", !.out = joined, !.joined = @ + 1]
       ELSE LET g == [f EXCEPT !.joined = @ + 1,
                               !.last_err = IF @ = NoResult THEN joined ELSE @]
            IN IF g.joined = Cardinality(g.members)
               THEN [g EXCEPT !.pc = "done", !.out = g.last_err]
               ELSE g

\* one turn of the loop on set.join_next(): the first Ok(resp) is returned
\* (abort_all), an error is kept in last_err, and when the set is empty the
\* last error is returned
race_join(f, calls) ==
    LET c == f.ready[f.joined + 1]
        joined == calls[c].out
    IN IF joined.tag = "Ok"
       THEN [f EXCEPT !.pc = "done", !.out = joined, !.joined = @ + 1]
       ELSE LET g == [f EXCEPT !.joined = @ + 1,
                               !.last_err = IF joined.tag = "cancelled"
                                            THEN Result("Internal", "", 0, "cancelled")
                                            ELSE joined]
            IN IF g.joined = Cardinality(g.members)
               THEN [g EXCEPT !.pc = "done", !.out = g.last_err]
               ELSE g

\* TcpNetworkService::request_put_key, from the dispatcher's result on
request_put_key(response) ==
    IF response.tag # "Ok"
    THEN Reply("Err", "ConnectionError", FALSE, error_to_string(response))
    ELSE IF is_success(response)
    THEN Reply("Ok", "", TRUE, <<>>)
    ELSE Reply("Err", "ConnectionError", FALSE,
               <<"Error en PUT:", response.code, response.payload>>)

\* TcpNetworkService::request_get_key, from the dispatcher's result on:
\* Ok(Some(payload)), or Ok(None) kept as the empty text
request_get_key(response) ==
    IF response.tag # "Ok"
    THEN Reply("Err", "ConnectionError", FALSE, error_to_string(response))
    ELSE IF is_success(response)
    THEN Reply("Ok", "", FALSE, <<response.payload>>)
    ELSE Reply("Ok", "", FALSE, <<>>)

\* GetKeyUseCase::execute after the node is found: the error is passed on,
\* any Ok becomes success: true with result = get_result.unwrap_or_default()
execute(get_result) ==
    IF get_result.kind = "Err" THEN get_result
    ELSE Reply("Ok", "", TRUE,
               IF get_result.text = <<>> THEN <<"">> ELSE get_result.text)

\* PutKeyUseCase::execute after the node is found: success = put_result
execute_put(put_result) == put_result

\* what the client is handed once the dispatcher has returned
route(f) ==
    IF f.pc # "done" THEN f
    ELSE [f EXCEPT !.reply = IF f.action = "PUT"
                             THEN execute_put(request_put_key(f.out))
                             ELSE execute(request_get_key(f.out))]

\* the router serves a GET or a PUT: get_all_nodes gave group
FanStart(group, action) ==
    /\ fan.pc = "idle"
    /\ fan' = route(race_spawn(fan, group, action))
    /\ UNCHANGED <<socks, call>>
    /\ UNCHANGED cachevars
    /\ UNCHANGED topo

\* a spawned task is polled for the first time: s.socket.request(..)
MemberStart(c) ==
    /\ fan.pc = "join"
    /\ c \in fan.members
    /\ RequestStart(c, SockOf(c), fan.action)

\* set.join_next() hands out the next finished task
FanJoin ==
    /\ fan.pc = "join"
    /\ fan.joined < Len(fan.ready)
    /\ fan' = route(race_join(fan, call))
    /\ UNCHANGED <<socks, call>>
    /\ UNCHANGED cachevars
    /\ UNCHANGED topo

\* after abort_all the runtime drops a task that is not running: one that
\* was never polled, or one that waits in request
Abort(c) ==
    /\ fan.pc = "done"
    /\ c \in fan.members
    /\ call[c].pc \in {"idle", "wait"}
    /\ ApplyNet(Finish(Net, c, Result("cancelled", call[c].rid, 0, "")))

\* the payload a member node puts in its replies
PayloadOf(s) == CASE s = "s1" -> "p1" [] s = "s2" -> "p2" [] s = "s3" -> "p3"

\* the lines the node behind socket s may answer with
FanLines(s) ==
    {<<"RES", "1", "200", PayloadOf(s)>>, <<"RES", "1", "500", PayloadOf(s)>>}

Groups == SUBSET Sockets

NextFan ==
    \/ \E group \in Groups, action \in {"GET", "PUT"} : FanStart(group, action)
    \/ \E c \in Calls : MemberStart(c)
    \/ \E c \in Calls : RequestStep(c)
    \/ \E c \in Calls : RequestTimeout(c)
    \/ \E c \in Calls : Abort(c)
    \/ \E s \in Sockets : SinkClose(s)
    \/ \E s \in Sockets : \E line \in FanLines(s) : Dispatch(s, line)
    \/ FanJoin

SpecFan == Init /\ [][NextFan]_vars

\* C17 as stated: once the dispatcher has returned for a group in which a
\* member's request returned a 2xx response, what it returned is a 2xx
\* response.
C17_AsStated ==
    (/\ fan.pc = "done"
     /\ \E c \in fan.members : call[c].out.tag = "Ok" /\ is_success(call[c].out))
    => fan.out.tag = "Ok" /\ is_success(fan.out)

\* the requests of all the members of the group have failed
AllFailed ==
    /\ fan.members # {}
    /\ \A c \in fan.members :
          call[c].pc = "done" /\ call[c].out.tag \notin {"Ok", "cancelled"}

\* C18: when the request has failed on every member of a non-empty group,
\* the dispatcher returns an error, which is the error of the request that
\* finished last, and the router hands the client an error.
C18_LastError ==
    (fan.pc = "done" /\ AllFailed)
    => /\ Len(fan.ready) = Cardinality(fan.members)
       /\ fan.out.tag \notin {"Ok", "none"}
       /\ fan.out = call[fan.ready[Len(fan.ready)]].out
       /\ fan.reply.kind = "Err"

\* three members failed, c3 first and c2, whose sink was closed, last
C18_Witness ==
    /\ fan.pc = "done" /\ fan.members = Calls
    /\ fan.ready = <<"c3", "c1", "c2">>
    /\ call["c3"].out.tag = "Timeout" /\ call["c1"].out.tag = "Timeout"
    /\ call["c2"].out.tag = "WriteChannelClosed"
    /\ fan.out = Result("WriteChannelClosed", "s2", 0, "")

\* the dispatcher returned a response and every task of the group has ended:
\* no call runs, no timer is armed
Settled ==
    /\ fan.pc = "done" /\ fan.out.tag = "Ok"
    /\ \A c \in fan.members : call[c].pc = "done"

\* C19 as stated, on finite runs: once the dispatcher has returned on the
\* first response and the cancelled tasks have been dropped, no cancelled
\* request's RID is left in the pending map of its multiplexer.
C19_AsStated ==
    Settled
    => \A c \in fan.members :
          (call[c].out.tag = "cancelled" /\ call[c].rid # "")
          => call[c].rid \notin DOMAIN socks[SockOf(c)].pending

\* every member's request returned a response that is not 2xx
AllNon2xx ==
    /\ fan.members # {}
    /\ \A c \in fan.members : call[c].out.tag = "Ok" /\ ~is_success(call[c].out)

\* C20 as stated: when every member has replied non-2xx, the client is
\* handed ConnectionError with the payload of the reply that came last,
\* for GET as for PUT.
C20_AsStated ==
    (fan.pc = "done" /\ AllNon2xx /\ Len(fan.ready) = Cardinality(fan.members))
    => /\ fan.reply.kind = "Err"
       /\ fan.reply.error = "ConnectionError"
       /\ ~fan.reply.success
       /\ fan.reply.text[Len(fan.reply.text)]
             = call[fan.ready[Len(fan.ready)]].out.payload

\* ------------------------------------------------------------------------
\* The master's cluster view: the consistent-hash ring
\* (DashmapConsistentHasherService), the groups and the registry
\* (TcpNetworkService, AppNetworkState), and the use cases that a connecting
\* and a disconnecting node run.  The operators take and return the record
\* t = topo; ret is what the operator returned.
\* ------------------------------------------------------------------------

\* virtual nodes per real node (VNODE_REPLICAS, scaled down)
VNodes == 2

IdIndex(id) == CASE id = "m1" -> 0 [] id = "m2" -> 1 [] id = "r1" -> 2 [] OTHER -> 3

\* hash_u64(format!("{node_id}#{i}")): a fixed value per virtual node, no two
\* alike, the nodes taking turns around the ring
vnode_hash(node_id, i) == 2 + 4 * (4 * i + IdIndex(node_id))

\* hash_u64(key) for the keys clients use: before the first virtual node,
\* between two of them, and behind the last
key_hash(key) == CASE key = "k1" -> 0 [] key = "k2" -> 7 [] OTHER -> 1000

RECURSIVE insert_vnodes_from(_, _, _)
insert_vnodes_from(ring, node_id, i) ==
    IF i >= VNodes THEN ring
    ELSE insert_vnodes_from(MapInsert(ring, vnode_hash(node_id, i), node_id), node_id, i + 1)

\* insert_vnodes: ring.insert(hash(id#i), id) for i in 0..vnodes
insert_vnodes(t, node_id) ==
    [t EXCEPT !.ring = insert_vnodes_from(@, node_id, 0)]

\* mutant: an id already present gets its virtual nodes again and a true
add_node_again(t, node_id) ==
    [insert_vnodes([t EXCEPT !.real_nodes = @ \cup {node_id}], node_id)
        EXCEPT !.ret = TRUE]

\* ConsistentHasherService::add_node
add_node(t, node_id) ==
    IF node_id \in t.real_nodes
    THEN [t EXCEPT !.ret = FALSE]
    ELSE [insert_vnodes([t EXCEPT !.real_nodes = @ \cup {node_id}], node_id)
             EXCEPT !.ret = TRUE]

\* ConsistentHasherService::node_exists
node_exists(t, node_id) == node_id \in t.real_nodes

\* ConsistentHasherService::remove_node: all the virtual hashes of the id
\* and its real-node mark go; true when the id was present
ring_remove_node(t, node_id) ==
    IF node_id \notin t.real_nodes
    THEN [t EXCEPT !.ret = FALSE]
    ELSE [t EXCEPT !.real_nodes = @ \ {node_id},
                   !.ring = [h \in {x \in DOMAIN t.ring : t.ring[x] # node_id}
                               |-> t.ring[h]],
                   !.ret = TRUE]

\* locate_node: the entry with the smallest hash >= target, else the entry
\* with the smallest hash; None on an empty ring
locate_node(t, target) ==
    IF DOMAIN t.ring = {} THEN None
    ELSE LET above == {h \in DOMAIN t.ring : h >= target}
             from == IF above # {} THEN above ELSE DOMAIN t.ring
         IN Some(t.ring[CHOOSE h \in from : \A o \in from : h <= o])

\* ConsistentHasherService::get_node_id_from_hash of the hash create_hash
\* made of the key
get_node_id_from_hash(t, key) == locate_node(t, key_hash(key))

\* resolve_node: the handle nodes_registry holds for the id
resolve_node(t, node_id) ==
    IF node_id \in DOMAIN t.nodes_registry
    THEN Some(t.nodes_registry[node_id]) ELSE None

\* get_shard / get_all_nodes: the handles of the group keyed by node_id
get_all_nodes(t, node_id) ==
    IF node_id \in DOMAIN t.nodes
    THEN {t.nodes[node_id][m] : m \in DOMAIN t.nodes[node_id]}
    ELSE {}

\* mutant: any group is returned, whatever its member count
less_replicas_any(t) ==
    DOMAIN t.nodes

\* the keys get_node_id_with_less_replicas may return: min_by_key over the
\* groups in the iteration order of the DashMap, which is not specified
less_replicas(t) ==
    {m \in DOMAIN t.nodes :
        \A o \in DOMAIN t.nodes :
            Cardinality(DOMAIN t.nodes[m]) <= Cardinality(DOMAIN t.nodes[o])}

\* NetworkService::count_replica_nodes: the member count of the group keyed
\* by the id, 0 without such a group
count_replica_nodes(t, node_id) ==
    IF node_id \in DOMAIN t.nodes THEN Cardinality(DOMAIN t.nodes[node_id]) ELSE 0

Ok(success) == Reply("Ok", "", success, <<>>)

Err(error, text) == Reply("Err", error, FALSE, <<text>>)

\* add_master_node: the registry's handle for the id becomes the member
\* node_id of the group node_id (ensure_shard creates the group)
add_master_node(t, node_id) ==
    IF node_id = "" THEN [t EXCEPT !.ret = Err("ConnectionError", "Nodo maestro sin id")]
    ELSE IF resolve_node(t, node_id) = None
    THEN [t EXCEPT !.ret = Err("ConnectionError", "Nodo no existe en registry")]
    ELSE LET node_arc == resolve_node(t, node_id)[1]
             entries == IF node_id \in DOMAIN t.nodes THEN t.nodes[node_id] ELSE EmptyMap
         IN IF node_id \in DOMAIN entries
            THEN [t EXCEPT !.nodes = MapInsert(@, node_id, entries), !.ret = Ok(FALSE)]
            ELSE [t EXCEPT !.handles[node_arc].master_id = Some(node_id),
                           !.nodes = MapInsert(@, node_id, MapInsert(entries, node_id, node_arc)),
                           !.ret = Ok(TRUE)]

\* mutant: the replica is inserted without its master_id being set
add_replica_node_no_master(t, master_node_id, node_id) ==
    IF resolve_node(t, node_id) = None
    THEN [t EXCEPT !.ret = Err("ConnectionError", "Nodo no existe en registry")]
    ELSE IF master_node_id \notin DOMAIN t.nodes
    THEN [t EXCEPT !.ret = Err("ConnectionError", "Shard del master no existe")]
    ELSE IF node_id \in DOMAIN t.nodes[master_node_id]
    THEN [t EXCEPT !.ret = Ok(FALSE)]
    ELSE [t EXCEPT !.nodes[master_node_id] =
                        MapInsert(@, node_id, resolve_node(t, node_id)[1]),
                   !.ret = Ok(TRUE)]

\* add_replica_node: the registry's handle for the id becomes a member of
\* the group master_node_id
add_replica_node(t, master_node_id, node_id) ==
    IF resolve_node(t, node_id) = None
    THEN [t EXCEPT !.ret = Err("ConnectionError", "Nodo no existe en registry")]
    ELSE IF master_node_id \notin DOMAIN t.nodes
    THEN [t EXCEPT !.ret = Err("ConnectionError", "Shard del master no existe")]
    ELSE IF node_id \in DOMAIN t.nodes[master_node_id]
    THEN [t EXCEPT !.ret = Ok(FALSE)]
    ELSE LET replica_arc == resolve_node(t, node_id)[1]
         IN [t EXCEPT !.handles[replica_arc].master_id = Some(master_node_id),
                      !.nodes[master_node_id] = MapInsert(@, node_id, replica_arc),
                      !.ret = Ok(TRUE)]

\* the groups the sweep of remove_node may stop at: the first group, in the
\* iteration order of the DashMap, that holds the id
sweep_shards(t, node_id) ==
    {m \in DOMAIN t.nodes : node_id \in DOMAIN t.nodes[m]}

\* TcpNetworkService::remove_node; first is the group the sweep stops at
\* when the registry does not hold the id
remove_node(t, node_id, first) ==
    IF node_id \in DOMAIN t.nodes_registry
    THEN LET node == t.nodes_registry[node_id]
             master == t.handles[node].master_id
         IN IF master = None
            THEN [t EXCEPT !.ret = Err("ConnectionError", "Es un nodo perdido")]
            ELSE LET master_id == master[1]
                     hit == master_id \in DOMAIN t.nodes
                            /\ node_id \in DOMAIN t.nodes[master_id]
                     entries == IF hit THEN MapRemove(t.nodes[master_id], node_id)
                              ELSE EmptyMap
                 IN [t EXCEPT
                       !.handles[node].master_id = IF hit THEN None ELSE @,
                       !.nodes = IF ~hit THEN @
                                 ELSE IF DOMAIN entries = {} THEN MapRemove(@, master_id)
                                 ELSE MapInsert(@, master_id, entries),
                       !.nodes_registry = MapRemove(@, node_id),
                       !.ret = Ok(TRUE)]
    ELSE IF first \in sweep_shards(t, node_id)
    THEN [t EXCEPT !.nodes[first] = MapRemove(@, node_id), !.ret = Ok(TRUE)]
    ELSE IF node_id \in DOMAIN t.nodes
    THEN [t EXCEPT !.nodes = MapRemove(@, node_id), !.ret = Ok(TRUE)]
    ELSE [t EXCEPT !.ret = Ok(FALSE)]

\* AssignNodeUseCase::handle_master_insert: add_node, whose result is not
\* looked at, then node_exists, then add_master_node
handle_master_insert(t, node_id) ==
    LET added == add_node(t, node_id)
    IN IF ~node_exists(added, node_id)
       THEN [added EXCEPT !.ret = Err("ConnectionError", "No se pudo agregar el nodo")]
       ELSE add_master_node(added, node_id)

\* AssignNodeUseCase::handle_replica_insert; target is what
\* get_node_id_with_less_replicas returned
handle_replica_insert(t, node_id, target) ==
    IF less_replicas(t) = {}
    THEN [t EXCEPT !.ret = Err("ConnectionError", "No hay nodos en la red")]
    ELSE add_replica_node(t, target, node_id)

\* AssignNodeUseCase: validate, then execute
assign_validate_and_execute(t, node_id, node_type, target) ==
    IF node_id = "" THEN [t EXCEPT !.ret = Err("FirstConnectionEmpty", "")]
    ELSE IF node_type = "Master" THEN handle_master_insert(t, node_id)
    ELSE IF node_type = "Replica" THEN handle_replica_insert(t, node_id, target)
    ELSE [t EXCEPT !.ret = Err("ConnectionError", "Nodo sin identificador")]

\* mutant: the ring entry goes only when the group is empty
remove_execute_strict(t, node_id, first) ==
    LET replica_count == count_replica_nodes(t, node_id)
        hashed == IF replica_count < 1 THEN ring_remove_node(t, node_id) ELSE t
        hasher_service_remove_result == replica_count < 1 /\ hashed.ret
        removed == remove_node(hashed, node_id, first)
    IN IF removed.ret.kind = "Err" THEN removed
       ELSE IF ~removed.ret.success
       THEN [removed EXCEPT !.ret = Err("NodeNotFound", node_id)]
       ELSE [removed EXCEPT !.ret = Ok(hasher_service_remove_result)]

\* RemoveNodeUseCase::execute
remove_execute(t, node_id, first) ==
    LET replica_count == count_replica_nodes(t, node_id)
        hashed == IF replica_count <= 1 THEN ring_remove_node(t, node_id) ELSE t
        hasher_service_remove_result == replica_count <= 1 /\ hashed.ret
        removed == remove_node(hashed, node_id, first)
    IN IF removed.ret.kind = "Err" THEN removed
       ELSE IF ~removed.ret.success
       THEN [removed EXCEPT !.ret = Err("NodeNotFound", node_id)]
       ELSE [removed EXCEPT !.ret = Ok(hasher_service_remove_result)]

\* RemoveNodeUseCase: validate, then execute
remove_validate_and_execute(t, node_id, first) ==
    IF node_id = "" THEN [t EXCEPT !.ret = Err("FirstConnectionEmpty", "")]
    ELSE remove_execute(t, node_id, first)

\* handle_conn up to the read loop: the handle is made, a storage node is
\* put in nodes_registry (replacing a handle with the same id) and assigned
handle_conn_open(t, c, node_id, node_type, target) ==
    LET made == [t EXCEPT !.handles[c] = [node_id |-> node_id, master_id |-> None,
                                          node_type |-> node_type, open |-> TRUE],
                          !.ret = NoReply]
    IN IF node_type \in {"Master", "Replica"}
       THEN assign_validate_and_execute(
                [made EXCEPT !.nodes_registry = MapInsert(@, node_id, c)],
                node_id, node_type, target)
       ELSE made

\* handle_conn after the read loop (EOF): the remove use case runs for the
\* id of the connection, its result is dropped
handle_conn_close(t, c, first) ==
    [remove_validate_and_execute(t, t.handles[c].node_id, first)
        EXCEPT !.handles[c].open = FALSE]

\* what get_node_id_with_less_replicas may return in t
Targets(t) == IF less_replicas(t) = {} THEN {NoKey} ELSE less_replicas(t)

\* the groups the sweep may stop at for the id in t
Firsts(t, node_id) ==
    IF sweep_shards(t, node_id) = {} THEN {NoKey} ELSE sweep_shards(t, node_id)

\* the order in which the listener hands out the connections
ConnOrder == <<"x1", "x2", "x3", "x4">>

\* the connection the next accept returns
NextConn(t) ==
    {c \in Conns : \E i \in 1..Len(ConnOrder) :
        /\ ConnOrder[i] = c
        /\ t.handles[c] = NoHandle
        /\ \A j \in 1..(i - 1) : t.handles[ConnOrder[j]] # NoHandle}

\* a node or a client connects and sends its first line
Connect(c, node_id, node_type) ==
    /\ c \in NextConn(topo)
    /\ \E target \in Targets(topo) :
          topo' = handle_conn_open(topo, c, node_id, node_type, target)
    /\ UNCHANGED <<socks, call, fan>>
    /\ UNCHANGED cachevars

\* the stream of a connection ends
Disconnect(c) ==
    /\ topo.handles[c].open
    /\ \E first \in Firsts(topo, topo.handles[c].node_id) :
          topo' = handle_conn_close(topo, c, first)
    /\ UNCHANGED <<socks, call, fan>>
    /\ UNCHANGED cachevars

\* the first lines the connections send: two primaries, a secondary, a
\* secondary that takes the id of a primary, and clients that take the id of
\* a storage node; sent twice, a line makes a duplicate id
FirstLines ==
    {<<"m1", "Master">>, <<"m2", "Master">>, <<"r1", "Replica">>,
     <<"m1", "Replica">>, <<"m1", "Client">>, <<"r1", "Client">>}

NextTopo ==
    \/ \E c \in Conns, line \in FirstLines : Connect(c, line[1], line[2])
    \/ \E c \in Conns : Disconnect(c)

SpecTopo == Init /\ [][NextTopo]_vars

\* only storage nodes have connected so far
NoClient == \A c \in Conns : topo.handles[c].node_type # "Client"

\* C21 as stated: after any sequence of connects and disconnects of storage
\* nodes, an id is in the ring exactly when it keys a group.
C21_AsStated ==
    NoClient
    => \A id \in Ids : id \in topo.real_nodes <=> id \in DOMAIN topo.nodes

\* the connections of storage nodes that have ended, no connection with the
\* same id being open
Gone ==
    {c \in Conns :
        /\ topo.handles[c].node_type \in {"Master", "Replica"}
        /\ ~topo.handles[c].open
        /\ \A d \in Conns :
              topo.handles[d].open => topo.handles[d].node_id # topo.handles[c].node_id}

\* C22 as stated: once the connection of a storage node has ended and its
\* removal has run, its id is in no group and not in nodes_registry.
C22_AsStated ==
    NoClient
    => \A c \in Gone :
          /\ topo.handles[c].node_id \notin DOMAIN topo.nodes_registry
          /\ \A m \in DOMAIN topo.nodes :
                topo.handles[c].node_id \notin DOMAIN topo.nodes[m]

\* the groups whose member count is minimal among all groups of topo
Smallest ==
    {m \in DOMAIN topo.nodes :
        \A o \in DOMAIN topo.nodes :
            Cardinality(DOMAIN topo.nodes[m]) <= Cardinality(DOMAIN topo.nodes[o])}

\* C23: a connection whose first line is "REPLICA id", accepted while groups
\* exist, puts id in one group whose member count was minimal when the
\* connection was accepted (with the handle of the connection when the id
\* was not a member yet), leaves every other group as it was, makes no new
\* group and leaves the ring and its set of real nodes unchanged.
C23_SecondaryJoinsSmallest ==
    [][\A c \in Conns :
          (/\ topo.handles[c] = NoHandle
           /\ topo'.handles[c].node_type = "Replica"
           /\ DOMAIN topo.nodes # {})
          => /\ \E target \in Smallest :
                  /\ topo'.nodes[target] =
                        IF topo'.handles[c].node_id \in DOMAIN topo.nodes[target]
                        THEN topo.nodes[target]
                        ELSE MapInsert(topo.nodes[target], topo'.handles[c].node_id, c)
                  /\ \A o \in DOMAIN topo.nodes \ {target} :
                        topo'.nodes[o] = topo.nodes[o]
             /\ DOMAIN topo'.nodes = DOMAIN topo.nodes
             /\ topo'.ring = topo.ring
             /\ topo'.real_nodes = topo.real_nodes]_vars

\* a secondary has joined the smaller of two groups: the other group has at
\* least as many members as the joined group has now, while the ring holds
\* only the positions of the two primaries
C23_Witness ==
    \E c \in Conns : \E m, o \in DOMAIN topo.nodes :
        /\ m # o
        /\ topo.handles[c].node_type = "Replica"
        /\ topo.handles[c].master_id = Some(m)
        /\ topo.handles[c].node_id \in DOMAIN topo.nodes[m]
        /\ topo.nodes[m][topo.handles[c].node_id] = c
        /\ Cardinality(DOMAIN topo.nodes[o]) >= Cardinality(DOMAIN topo.nodes[m])
        /\ topo.ret = Ok(TRUE)
        /\ topo.real_nodes = {m, o}

\* C24 as stated: a connection whose first line is "MASTER id", accepted
\* while the ring already holds id, gets ConnectionError from the assignment
\* and leaves the ring, its set of real nodes and the groups as they were.
C24_AsStated ==
    [][\A c \in Conns :
          (/\ topo.handles[c] = NoHandle
           /\ topo'.handles[c].node_type = "Master"
           /\ topo'.handles[c].node_id \in topo.real_nodes)
          => /\ topo'.ret.kind = "Err"
             /\ topo'.ret.error = "ConnectionError"
             /\ topo'.ring = topo.ring
             /\ topo'.real_nodes = topo.real_nodes
             /\ topo'.nodes = topo.nodes]_vars

\* C25: when the stream of a connection ends and the remove use case runs
\* for its id, the ring loses the id (every virtual hash and the real-node
\* mark, nothing else) when the group keyed by the id had at most one member
\* at the call, the ring is unchanged when it had more, and in both cases
\* the groups, the registry and the handles are what
\* TcpNetworkService::remove_node makes of them.
C25_RingRemoval ==
    [][\A c \in Conns :
          (topo.handles[c].open /\ ~topo'.handles[c].open)
          => LET node_id == topo.handles[c].node_id
                 replica_count == count_replica_nodes(topo, node_id)
             IN /\ replica_count <= 1
                     => /\ topo'.real_nodes = topo.real_nodes \ {node_id}
                        /\ DOMAIN topo'.ring =
                              {h \in DOMAIN topo.ring : topo.ring[h] # node_id}
                        /\ \A h \in DOMAIN topo'.ring : topo'.ring[h] = topo.ring[h]
                /\ replica_count > 1
                     => /\ topo'.real_nodes = topo.real_nodes
                        /\ topo'.ring = topo.ring
                /\ \E first \in Firsts(topo, node_id) :
                     LET removed == remove_node(topo, node_id, first)
                     IN /\ topo'.nodes = removed.nodes
                        /\ topo'.nodes_registry = removed.nodes_registry
                        /\ \A d \in Conns :
                              topo'.handles[d].master_id = removed.handles[d].master_id]_vars

\* a primary has left a group of two: the ring keeps its id, the group keeps
\* the secondary, the registry has lost the primary
C25_Witness ==
    \E c \in Conns :
        LET m == topo.handles[c].node_id
        IN /\ topo.handles[c].node_type = "Master"
           /\ ~topo.handles[c].open
           /\ m \in topo.real_nodes
           /\ m \in DOMAIN topo.nodes
           /\ m \notin DOMAIN topo.nodes[m]
           /\ Cardinality(DOMAIN topo.nodes[m]) = 1
           /\ m \notin DOMAIN topo.nodes_registry
           /\ topo.ret = Ok(FALSE)

\* the ids that are in no group, key no group and are not in the registry
Unknown ==
    {id \in Ids :
        /\ id \notin DOMAIN topo.nodes_registry
        /\ id \notin DOMAIN topo.nodes
        /\ \A m \in DOMAIN topo.nodes : id \notin DOMAIN topo.nodes[m]}

\* C26 as stated: when the remove use case runs for an id the topology does
\* not know, it reports NodeNotFound and the ring, its set of real nodes,
\* the groups and the registry stay as they were.
C26_AsStated ==
    [][\A c \in Conns :
          (/\ topo.handles[c].open
           /\ ~topo'.handles[c].open
           /\ topo.handles[c].node_id \in Unknown)
          => /\ topo'.ret = Err("NodeNotFound", topo.handles[c].node_id)
             /\ topo'.ring = topo.ring
             /\ topo'.real_nodes = topo.real_nodes
             /\ topo'.nodes = topo.nodes
             /\ topo'.nodes_registry = topo.nodes_registry]_vars

\* C27 as stated: for an id that is a member of some group, get_all_nodes
\* returns the handles of a group the id is a member of, whether the id keys
\* the group or is one of its other members; for an unknown id it returns
\* nothing.
C27_AsStated ==
    \A id \in Ids :
        /\ (\E m \in DOMAIN topo.nodes : id \in DOMAIN topo.nodes[m])
              => \E m \in DOMAIN topo.nodes :
                    /\ id \in DOMAIN topo.nodes[m]
                    /\ get_all_nodes(topo, id) =
                          {topo.nodes[m][n] : n \in DOMAIN topo.nodes[m]}
        /\ id \in Unknown => get_all_nodes(topo, id) = {}

----------------------------------------------------------------------------
\* The request router: PUT and GET use cases on top of the ring, the
\* topology and the dispatcher.

\* the socket of a connection's handle (AppNetworkNode.socket)
SocketOf(x) == CASE x = "x1" -> "s1" [] x = "x2" -> "s2" [] x = "x3" -> "s3"

\* PutKeyUseCase::validate
validate_put(key, value) ==
    IF key = "" THEN Err("BadRequest", "Key is empty")
    ELSE IF value = "" THEN Err("BadRequest", "Value is empty")
    ELSE NoReply

\* GetKeyUseCase::validate
validate(key) ==
    IF key = "" THEN Err("BadRequest", "Key is empty") ELSE NoReply

\* PutKeyUseCase::execute and GetKeyUseCase::execute up to the dispatcher's
\* first step: create_hash, get_node_id_from_hash, NodeNotFound when there
\* is no node, else request_put_key / request_get_key on get_all_nodes
execute_start(f, t, action, key) ==
    LET hashed == [f EXCEPT !.hash = Some(key_hash(key)), !.action = action]
        node_id_option == get_node_id_from_hash(t, key)
    IN IF node_id_option = None
       THEN [hashed EXCEPT !.pc = "done", !.reply = Err("NodeNotFound", key)]
       ELSE route(race_spawn(hashed,
                             {SocketOf(x) : x \in get_all_nodes(t, node_id_option[1])},
                             action))

\* mutant: execute runs whatever validate said
validate_and_execute_unchecked(f, t, action, key, value) ==
    execute_start([f EXCEPT !.input = <<action, key, value>>], t, action, key)

\* UseCaseValidatable::validate_and_execute for the two use cases, as the
\* request controller calls it
validate_and_execute(f, t, action, key, value) ==
    LET checked == IF action = "PUT" THEN validate_put(key, value) ELSE validate(key)
        g == [f EXCEPT !.input = <<action, key, value>>]
    IN IF checked # NoReply
       THEN [g EXCEPT !.pc = "done", !.action = action, !.reply = checked]
       ELSE execute_start(g, t, action, key)

\* a client sends PUT key value or GET key
Serve(action, key, value) ==
    /\ fan.pc = "idle"
    /\ fan' = validate_and_execute(fan, topo, action, key, value)
    /\ UNCHANGED <<socks, call>>
    /\ UNCHANGED cachevars
    /\ UNCHANGED topo

\* a storage node connects before the request is served
Join(c, node_id, node_type) ==
    /\ fan.pc = "idle"
    /\ Connect(c, node_id, node_type)

\* the stream of a storage node ends before the request is served
Leave(c) ==
    /\ fan.pc = "idle"
    /\ Disconnect(c)

\* the connections that have a socket in the model of the multiplexer
RouteConns == {"x1", "x2", "x3"}

\* the first lines of the storage nodes
RouteLines == {<<"m1", "Master">>, <<"m2", "Master">>, <<"r1", "Replica">>}

\* the keys and values of the requests; the empty ones are what validate
\* rejects
RouteKeys == {"", "k1", "k2"}

RouteValues == {"", "v"}

\* the requests of the client: a GET carries no value
RouteInputs ==
    {<<"PUT", key, value>> : key \in RouteKeys, value \in RouteValues}
        \cup {<<"GET", key, "">> : key \in RouteKeys}

NextRoute ==
    \/ \E c \in RouteConns, line \in RouteLines : Join(c, line[1], line[2])
    \/ \E c \in RouteConns : Leave(c)
    \/ \E input \in RouteInputs : Serve(input[1], input[2], input[3])
    \/ \E c \in Calls : MemberStart(c)
    \/ \E c \in Calls : RequestStep(c)
    \/ \E s \in Sockets : Dispatch(s, <<"RES", "1", "200", PayloadOf(s)>>)
    \/ FanJoin

SpecRoute == Init /\ [][NextRoute]_vars

\* nothing has been sent to any storage node: no task of the dispatcher was
\* spawned, no call has left its start and no sink holds a line
NothingSent ==
    /\ fan.members = {}
    /\ \A c \in Calls : call[c] = IdleCall
    /\ \A s \in Sockets : socks[s].outbox = <<>>

C30_ValidateFirst ==
    /\ [][(fan.pc = "idle" /\ fan'.pc # "idle")
            => /\ fan'.input[2] = ""
                   => fan'.reply = Err("BadRequest", "Key is empty")
               /\ (fan'.input[1] = "PUT" /\ fan'.input[2] # "" /\ fan'.input[3] = "")
                   => fan'.reply = Err("BadRequest", "Value is empty")]_vars
    /\ [](fan.reply.error = "BadRequest"
           => /\ fan.pc = "done"
              /\ fan.hash = None
              /\ NothingSent)

\* a PUT with an empty value was rejected while the node of its key had a
\* group with members to send to
C30_Witness ==
    /\ fan.reply = Err("BadRequest", "Value is empty")
    /\ DOMAIN topo.ring # {}
    /\ get_all_nodes(topo, locate_node(topo, key_hash(fan.input[2]))[1]) # {}

----------------------------------------------------------------------------
\* A client PUT with a TTL, from the router's use case to the storage node's
\* cache.  Router and node read the same wall clock (AppClock: milliseconds
\* since the UNIX epoch), the variable now.

\* PutKeyUseCase::execute, lines 55-58: what it hands to request_put_key in
\* the place of the ttl
put_expires_at(ttl, now_ms) ==
    IF ttl # None THEN Some(now_ms + ttl[1]) ELSE None

\* TcpNetworkService::request_put_key, the payload it formats: the key and
\* the quoted value
request_put_key_payload(key, value) == <<key, value>>

\* request_put_key as NetworkService declares it, with a ttl argument: the
\* payload PUT k "v" [ttl_ms] with the argument in the place of ttl_ms
request_put_key_payload_ttl(key, value, ttl) ==
    IF ttl # None THEN <<key, value, ttl[1]>> ELSE <<key, value>>

\* ActionParserService::parse for PUT: key, value and the third part as u64
action_parse(parts) ==
    [key |-> IF Len(parts) >= 1 THEN parts[1] ELSE "",
     value |-> IF Len(parts) >= 2 THEN parts[2] ELSE "",
     ttl |-> IF Len(parts) >= 3 THEN Some(parts[3]) ELSE None]

\* exec_put: an empty key or value stores nothing, else Cache::put
exec_put(c, cmd, now_ms) ==
    IF cmd.key = "" \/ cmd.value = "" THEN c
    ELSE put(c, cmd.key, cmd.value, cmd.ttl, now_ms)

\* the socket of the one member of the key's group
TtlSock == "s1"

\* the router serves PUT k v [ttl_ms]: the use case computes expires_at and
\* request_put_key writes the request to the member's sink; forwards tells
\* whether the network service is the one with the ttl argument.  input
\* keeps the request and the time at which the router took it.
RouterPut(k, v, ttl, forwards) ==
    /\ fan.pc # "join"
    /\ k \in DOMAIN map => map[k].version < MaxVersion
    /\ LET expires_at == put_expires_at(ttl, now)
           payload == IF forwards
                      THEN request_put_key_payload_ttl(k, v, expires_at)
                      ELSE request_put_key_payload(k, v)
       IN /\ fan' = [FanIdle EXCEPT !.pc = "join", !.action = "PUT",
                                    !.input = <<"PUT", k, v, ttl, now>>]
          /\ socks' = [socks EXCEPT ![TtlSock].outbox =
                          Append(@, request_to_string("1", "PUT", payload))]
    /\ UNCHANGED <<call, topo>>
    /\ UNCHANGED cachevars

\* the storage node reads the request, handle_request runs it on the cache
\* and the reply RES 200 reaches the router
NodePut ==
    /\ fan.pc = "join"
    /\ socks[TtlSock].outbox # <<>>
    /\ LET line == Head(socks[TtlSock].outbox)
           cmd == action_parse(line[4])
           c == exec_put(Cache, cmd, now)
       IN /\ map' = c.map
          /\ lru' = c.lru
          /\ wheel' = c.wheel
          /\ stamp' = Compact(Use(stamp, cmd.key, DOMAIN map), DOMAIN c.map)
          /\ last' = Call("put", Some(cmd.key), Some(cmd.value),
                          IF cmd.ttl = None THEN None ELSE Some(now + cmd.ttl[1]), c)
    /\ socks' = [socks EXCEPT ![TtlSock].outbox = Tail(@)]
    /\ fan' = [fan EXCEPT !.pc = "done", !.reply = Ok(TRUE)]
    /\ UNCHANGED <<now, reaped, pin, pc, loc, shard, stores, puts, call, topo>>

\* the requests of the client: two keys, with and without a TTL
TtlArgs == {"k1", "k2"} \X {"v1"} \X {None, Some(1), Some(TickMs * WheelSize + 1)}

NextTtl ==
    \/ \E a \in TtlArgs, forwards \in BOOLEAN : RouterPut(a[1], a[2], a[3], forwards)
    \/ NodePut
    \/ Tick(TrackLast)

SpecTtl == Init /\ [][NextTtl]_vars

\* C31 as stated: once the node has run a routed PUT k v ttl_ms, the entry
\* of k expires ttl_ms after the put, that is no earlier than ttl_ms after
\* the router took the request and no later than ttl_ms after now; without
\* a TTL it does not expire.
C31_AsStated ==
    (fan.pc = "done" /\ fan.action = "PUT" /\ Len(fan.input) = 5
        /\ fan.input[2] \in DOMAIN map)
    => LET ttl == fan.input[4]
           expires_at == map[fan.input[2]].expires_at
       IN IF ttl = None THEN expires_at = None
          ELSE /\ expires_at # None
               /\ expires_at[1] >= fan.input[5] + ttl[1]
               /\ expires_at[1] <= now + ttl[1]

----------------------------------------------------------------------------
\* The wire codec, character by character.  A string is the sequence of
\* its characters; positions are counted from 0 as in the source, so the
\* byte at position i of input is input[i + 1].

Quote == "\""

\* longest payload tried
MaxLen == 3

\* the characters of the payloads: a letter, the blank and the quote
PayloadChars == {"a", " ", Quote}

Payloads == UNION {[1..n -> PayloadChars] : n \in 0..MaxLen}

\* input[start..end]
Slice(input, start, end) == SubSeq(input, start + 1, end)

\* the first position from i on that holds no blank, the length if none
skip_spaces(input, i) ==
    IF i >= Len(input) THEN i
    ELSE CHOOSE j \in i..Len(input) :
            /\ j = Len(input) \/ input[j + 1] # " "
            /\ \A k \in i..(j - 1) : input[k + 1] = " "

\* the first position from i on that satisfies stop, the length if none
scan(input, i, stop(_)) ==
    IF i >= Len(input) THEN i
    ELSE CHOOSE j \in i..Len(input) :
            /\ j = Len(input) \/ stop(j)
            /\ \A k \in i..(j - 1) : ~stop(k)

\* split_message of the net crate, the scan of a quoted token: the first
\* quote that is followed by a blank or by the end of the input
closing_quote(input, i) ==
    scan(input, i, LAMBDA j : /\ input[j + 1] = Quote
                             /\ (j + 1 >= Len(input) \/ input[j + 2] = " "))

\* split_message of the net crate, from position i on
RECURSIVE split_message_from(_, _)
split_message_from(input, i) ==
    LET at == skip_spaces(input, i)
    IN IF at >= Len(input) THEN <<>>
       ELSE IF input[at + 1] = Quote
       THEN LET start == at + 1
                end == closing_quote(input, start)
            IN <<Slice(input, start, end)>> \o split_message_from(input, end + 1)
       ELSE LET end == scan(input, at, LAMBDA j : input[j + 1] \in {" ", Quote})
            IN <<Slice(input, at, end)>> \o split_message_from(input, end)

\* split_message of the net crate (ResponseData::parse uses it)
split_message(input) == split_message_from(input, 0)

\* split_message of the core crate, read_token: None, or the start, the end
\* and the next position of the token; no backslash is among the characters
read_token(input, i) ==
    LET at == skip_spaces(input, i)
    IN IF at >= Len(input) THEN None
       ELSE IF input[at + 1] = Quote
       THEN LET end == scan(input, at + 1, LAMBDA j : input[j + 1] = Quote)
            IN IF end < Len(input) THEN Some(<<at + 1, end, end + 1>>)
               ELSE Some(<<at + 1, Len(input), Len(input)>>)
       ELSE LET end == scan(input, at, LAMBDA j : input[j + 1] = " ")
            IN Some(<<at, end, end>>)

\* split_message of the core crate, the header: up to three tokens; the
\* result is the parts and the position after them
RECURSIVE split_header(_, _, _)
split_header(input, i, parts) ==
    IF Len(parts) >= 3 \/ read_token(input, i) = None THEN <<parts, i>>
    ELSE LET t == read_token(input, i)[1]
         IN split_header(input, t[3], Append(parts, Slice(input, t[1], t[2])))

\* the end of the input without the line ends that close it
trim_line_end(input) ==
    CHOOSE e \in 0..Len(input) :
        /\ e = 0 \/ input[e] \notin {"\r", "\n"}
        /\ \A k \in (e + 1)..Len(input) : input[k] \in {"\r", "\n"}

\* split_message of the core crate (RequestData::parse uses it): the header,
\* then the rest as one payload without its outer quotes; "panic" when the
\* rest is a single quote, where the slice starts after its end
split_message_core(input) ==
    LET header == split_header(input, 0, <<>>)
        at == skip_spaces(input, header[2])
        end == trim_line_end(input)
        quoted == end > at /\ input[at + 1] = Quote /\ input[end] = Quote
    IN IF at >= Len(input) THEN header[1]
       ELSE IF quoted /\ at + 1 > end - 1 THEN <<"panic">>
       ELSE IF quoted THEN Append(header[1], Slice(input, at + 1, end - 1))
       ELSE IF at > end THEN <<"panic">>
       ELSE Append(header[1], Slice(input, at, end))

\* u16 and counter values in decimal
Digits == <<"0", "1", "2", "3", "4", "5", "6", "7", "8", "9">>

RECURSIVE u16_to_string(_)
u16_to_string(n) ==
    IF n < 10 THEN <<Digits[n + 1]>>
    ELSE Append(u16_to_string(n \div 10), Digits[(n % 10) + 1])

DigitOf(ch) == CHOOSE d \in 0..9 : Digits[d + 1] = ch

RECURSIVE digits_value(_)
digits_value(str) ==
    IF str = <<>> THEN 0
    ELSE 10 * digits_value(SubSeq(str, 1, Len(str) - 1)) + DigitOf(str[Len(str)])

\* str.parse::<u16>(): None for the empty string, a character that is no
\* digit, or a value above u16::MAX
u16_parse(str) ==
    IF str = <<>> \/ \E i \in 1..Len(str) : \A d \in 1..10 : Digits[d] # str[i]
    THEN None
    ELSE IF digits_value(str) > 65535 THEN None
    ELSE Some(digits_value(str))

\* RequestData::to_string
RequestData_to_string(id, action, payload) ==
    <<"R", "E", "Q", " ">> \o id \o <<" ">> \o action \o <<" ", Quote>>
        \o payload \o <<Quote, "\n">>

\* ResponseData::to_string
ResponseData_to_string(req_id, code, payload) ==
    <<"R", "E", "S", " ">> \o req_id \o <<" ">> \o u16_to_string(code)
        \o <<" ", Quote>> \o payload \o <<Quote, "\n">>

\* str::trim for the lines of the protocol: blanks and line ends at both ends
trim(line) ==
    LET white == {" ", "\r", "\n"}
        lo == IF \A k \in 1..Len(line) : line[k] \in white THEN Len(line) + 1
                 ELSE CHOOSE j \in 1..Len(line) :
                        line[j] \notin white /\ \A k \in 1..(j - 1) : line[k] \in white
        hi == IF lo > Len(line) THEN Len(line)
                ELSE CHOOSE j \in 1..Len(line) :
                        line[j] \notin white
                        /\ \A k \in (j + 1)..Len(line) : line[k] \in white
    IN SubSeq(line, lo, hi)

\* RequestData::parse
RequestData_parse(str) ==
    LET parts == split_message_core(str)
    IN IF parts = <<"panic">> THEN [tag |-> "panic"]
       ELSE IF Len(parts) < 3 THEN [tag |-> "BadMessage"]
       ELSE IF parts[3] = <<>> \/ parts[2] = <<>> THEN [tag |-> "BadRequest"]
       ELSE [tag |-> "Ok", id |-> parts[2], action |-> parts[3],
             payload |-> IF Len(parts) >= 4 THEN parts[4] ELSE <<>>]

\* ResponseData::parse
ResponseData_parse(str) ==
    LET parts == split_message(str)
    IN IF Len(parts) < 4 THEN [tag |-> "BadMessage"]
       ELSE IF u16_parse(parts[3]) = None THEN [tag |-> "BadRequest"]
       ELSE [tag |-> "Ok", req_id |-> parts[2], code |-> u16_parse(parts[3])[1],
             payload |-> parts[4]]

\* the frames sent: ids and actions are bare tokens
FrameIds == {<<"1">>, <<"1", "2">>}

FrameActions == {<<"G", "E", "T">>, <<"P", "U", "T">>}

FrameCodes == {200, 404}

ReqFrames ==
    {[kind |-> "REQ", id |-> id, action |-> action, code |-> 0, payload |-> payload] :
        id \in FrameIds, action \in FrameActions, payload \in Payloads}

ResFrames ==
    {[kind |-> "RES", id |-> id, action |-> <<>>, code |-> code, payload |-> payload] :
        id \in FrameIds, code \in FrameCodes, payload \in Payloads}

\* the socket the frames travel on
WireSock == "s1"

\* Socket::request / Socket::send_res: the frame is formatted and written
\* to the sink
Encode(frame) ==
    /\ fan.pc = "idle"
    /\ fan' = [fan EXCEPT !.pc = "join", !.input = frame]
    /\ socks' = [socks EXCEPT ![WireSock].outbox =
                    <<IF frame.kind = "REQ"
                      THEN RequestData_to_string(frame.id, frame.action, frame.payload)
                      ELSE ResponseData_to_string(frame.id, frame.code, frame.payload)>>]
    /\ UNCHANGED <<call, topo>>
    /\ UNCHANGED cachevars

\* the peer reads the line: parse_line trims it, a REQ goes through
\* RequestData::parse, a RES through ResponseData::from_str
Decode ==
    /\ fan.pc = "join"
    /\ socks[WireSock].outbox # <<>>
    /\ LET msg == trim(Head(socks[WireSock].outbox))
       IN fan' = [fan EXCEPT !.pc = "done",
                             !.out = IF fan.input.kind = "REQ"
                                     THEN RequestData_parse(msg)
                                     ELSE ResponseData_parse(msg)]
    /\ socks' = [socks EXCEPT ![WireSock].outbox = Tail(@)]
    /\ UNCHANGED <<call, topo>>
    /\ UNCHANGED cachevars

NextCodec ==
    \/ \E frame \in ReqFrames \cup ResFrames : Encode(frame)
    \/ Decode

SpecCodec == Init /\ [][NextCodec]_vars

\* C32 as stated: a REQ frame that was formatted and parsed yields its rid,
\* action and payload, a RES frame its rid, code and payload.
C32_AsStated ==
    fan.pc = "done"
    => /\ fan.out.tag = "Ok"
       /\ fan.out.payload = fan.input.payload
       /\ IF fan.input.kind = "REQ"
          THEN fan.out.id = fan.input.id /\ fan.out.action = fan.input.action
          ELSE fan.out.req_id = fan.input.id /\ fan.out.code = fan.input.code

----------------------------------------------------------------------------
\* The read loop of a router connection.

\* handle_conn, one turn of the read loop on a line that was read: an error
\* of parse_line leaves the function through the ? operator, with the error
\* as its result and without the remove use case; any other line is handled
\* and the loop goes on
read_line(t, c, line) ==
    IF parse_line(line).kind = "Err"
    THEN [t EXCEPT !.handles[c].open = FALSE, !.ret = Err("BadMessage", "")]
    ELSE [t EXCEPT !.ret = NoReply]

\* the connection c reads a line
ReadLine(c, line) ==
    /\ topo.handles[c].open
    /\ topo' = read_line(topo, c, line)
    /\ LET n == dispatch_line(Net, SocketOf(c), line)
       IN socks' = n.socks /\ call' = n.call
    /\ UNCHANGED fan
    /\ UNCHANGED cachevars

\* the lines a peer sends after its first line: a response, a line that is
\* neither REQ nor RES, and two malformed ones (a REQ without an action, a
\* RES without anything after the id)
ReadLines ==
    {<<"RES", "1", "200", "a">>, <<"PING">>, <<"REQ", "1">>, <<"RES", "1">>}

NextRead ==
    \/ \E c \in RouteConns, line \in RouteLines : Connect(c, line[1], line[2])
    \/ \E c \in RouteConns : Disconnect(c)
    \/ \E c \in RouteConns, line \in ReadLines : ReadLine(c, line)

SpecRead == Init /\ [][NextRead]_vars

\* C33 as stated: when a connection reads a malformed line, the connection
\* stays open and the registry, the groups and the ring are unchanged.
C33_AsStated ==
    [][\A c \in RouteConns :
          (topo.handles[c].open /\ topo'.ret = Err("BadMessage", ""))
          => /\ topo'.handles[c].open
             /\ topo'.nodes_registry = topo.nodes_registry
             /\ topo'.nodes = topo.nodes
             /\ topo'.ring = topo.ring
             /\ topo'.real_nodes = topo.real_nodes]_vars

----------------------------------------------------------------------------
\* Two request handlers on one cache.  The index is a DashMap
\* with the default hasher, whose seed is drawn when the map is built: which
\* keys share a shard differs from run to run.

ShardIds == {0, 1}

InitCalls ==
    /\ InitCache
    /\ shard \in [Keys -> ShardIds]

\* puts without TTL: the wheel stays empty
CallsPutArgs == Keys \X {"v1"} \X {None}
\* the keys that are read and the keys that are invalidated
CallsGetKeys == {"k3"}
CallsInvalidateKeys == {"k1"}

NextCalls ==
    \/ \E t \in Handlers, a \in CallsPutArgs : StartPut(t, a[1], a[2], a[3])
    \/ \E t \in Handlers, k \in CallsGetKeys : StartGet(t, k)
    \/ \E t \in Handlers, k \in CallsInvalidateKeys : StartInvalidate(t, k)
    \/ \E t \in Handlers : PutStep(t)
    \/ \E t \in Handlers : GetStep(t)
    \/ \E t \in Handlers : InvalidateStep(t)
    \/ \E t \in Handlers : DescheduleStep(t)

SpecCalls == InitCalls /\ [][NextCalls]_vars

\* t waits for the index shard that the guard of u keeps read-locked
WaitsFor(t, u) ==
    /\ map_write(t) # None
    /\ loc[u].guard # None
    /\ shard[loc[u].guard[1]] = shard[map_write(t)[1]]

\* C34 as stated: no call waits for a lock whose holder waits for it in
\* turn, the holder being the call itself included: such a call never
\* completes.
C34_AsStated ==
    \A t \in Threads, u \in Threads : ~(WaitsFor(t, u) /\ WaitsFor(u, t))

\* C35 as stated: once all calls of an interleaving of concurrent put, get
\* and invalidate have completed, the index holds at most capacity entries.
C35_AsStated == Quiet => len(Cache) <= Capacity

\* C36 as stated: once all calls of an interleaving of concurrent put, get
\* and invalidate have completed, the index and the LRU list hold the same
\* key set.
C36_AsStated == Quiet => DOMAIN map = lru_keys(lru)

----------------------------------------------------------------------------
\* The reaper task and another caller of advance_wheel_to_now, the clock
\* running a tick at a time.

\* the clock runs for MaxTicks ticks of the wheel
MaxTicks == 2

Advancers == {"w1", "reaper"}

\* a tick of the wheel passes
Elapse ==
    /\ now < MaxTicks * TickMs
    /\ now' = now + TickMs
    /\ UNCHANGED <<map, lru, wheel, last, reaped, pin, stamp, pc, loc, shard, stores, puts>>
    /\ UNCHANGED <<socks, call, fan, topo>>

NextAdvance ==
    \/ \E t \in Advancers : StartAdvance(t)
    \/ \E t \in Advancers : AdvanceStep(t)
    \/ Elapse

SpecAdvance == Init /\ [][NextAdvance]_vars

\* C37 as stated: the cursor of the wheel never decreases, also when the
\* reaper and another caller run advance_to at once.
C37_AsStated == [][wheel'.cursor >= wheel.cursor]_vars

----------------------------------------------------------------------------
\* C38 as stated: after any sequence of connects and disconnects of storage
\* nodes, every node id is a member of at most one group, and the handle the
\* group stores for it is the handle the nodes registry holds for that id.
C38_AsStated ==
    \A id \in Ids :
        /\ Cardinality({m \in DOMAIN topo.nodes : id \in DOMAIN topo.nodes[m]}) <= 1
        /\ \A m \in DOMAIN topo.nodes :
              id \in DOMAIN topo.nodes[m]
              => /\ id \in DOMAIN topo.nodes_registry
                 /\ topo.nodes_registry[id] = topo.nodes[m][id]

----------------------------------------------------------------------------
\* Requests of a client one after the other, raced across a group of two
\* storage nodes whose caches hold what they were sent.  The topology is
\* fixed, entries carry no TTL and the caches never fill.

\* the sockets of the members of the key's group
RaceGroup == {"s1", "s2"}

\* the key every request is about (the payload request writes) and the
\* value every PUT carries
RaceKey == "k"

RaceValue == "v"

\* the client sends at most MaxRequests requests
MaxRequests == 3

\* exec_put / exec_get on the node's cache: what the cache holds afterwards
node_exec(store, action, key) ==
    IF action = "PUT" /\ key # "" THEN MapInsert(store, key, RaceValue) ELSE store

\* exec_put / exec_get and Response::to_wire: the payload of the reply, the
\* value for a GET that hits and the empty text otherwise
node_to_wire(store, action, key) ==
    IF key = "" THEN "EMPTY"
    ELSE IF action = "GET" /\ key \in DOMAIN store THEN store[key]
    ELSE ""

\* the reader task on a RES line: the pending entry a dropped call left
\* behind holds the sender of that call's channel, whose receiver is gone,
\* so the entry is removed and the send fails; otherwise dispatch_line
race_dispatch(n, s, line) ==
    LET msg == parse_line(line)
        pend == n.socks[s].pending
    IN IF msg.kind = "Res" /\ msg.id \in DOMAIN pend /\ n.call[pend[msg.id]].rid # msg.id
       THEN [n EXCEPT !.socks[s].pending = MapRemove(@, msg.id)]
       ELSE dispatch_line(n, s, line)

\* the requests served so far and whether a PUT among them was acknowledged
Served == IF fan.input = None THEN 0 ELSE fan.input[4]

Acked ==
    \/ fan.input # None /\ fan.input[3]
    \/ fan.pc = "done" /\ fan.action = "PUT" /\ fan.reply = Ok(TRUE)

\* the client sends PUT k v or GET k once its previous request was answered
\* and the tasks of that request have ended or were dropped; input keeps
\* the request, whether a PUT was acknowledged before it, and its number
NextRequest(action) ==
    /\ fan.pc \in {"idle", "done"}
    /\ \A c \in fan.members : call[c].pc = "done"
    /\ Served < MaxRequests
    /\ fan' = route(race_spawn([FanIdle EXCEPT
                                   !.input = <<action, RaceKey, Acked, Served + 1>>],
                               RaceGroup, action))
    /\ call' = [c \in Calls |-> IdleCall]
    /\ UNCHANGED socks
    /\ UNCHANGED cachevars
    /\ UNCHANGED topo

\* the storage node behind s reads the next request, handle_request_async
\* runs it on the node's cache and replies with code 200, and the router's
\* reader task dispatches the reply
NodeServe(s) ==
    /\ socks[s].outbox # <<>>
    /\ LET line == Head(socks[s].outbox)
           reply == <<"RES", line[2], "200", node_to_wire(stores[s], line[3], line[4])>>
           n == race_dispatch([Net EXCEPT !.socks[s].outbox = Tail(@)], s, reply)
       IN /\ stores' = [stores EXCEPT ![s] = node_exec(@, line[3], line[4])]
          /\ socks' = n.socks
          /\ call' = n.call
    /\ UNCHANGED <<map, lru, wheel, now, last, reaped, pin, stamp, pc, loc, shard, puts>>
    /\ UNCHANGED <<fan, topo>>

NextRace ==
    \/ \E action \in {"PUT", "GET"} : NextRequest(action)
    \/ \E c \in Calls : MemberStart(c)
    \/ \E c \in Calls : RequestStep(c)
    \/ \E c \in Calls : Abort(c)
    \/ \E s \in RaceGroup : NodeServe(s)
    \/ FanJoin

SpecRace == Init /\ [][NextRace]_vars

\* C39 as stated: a GET k that the router was sent after it had
\* acknowledged a PUT k v is answered with v.
C39_AsStated ==
    (fan.pc = "done" /\ fan.action = "GET" /\ fan.input[3])
    => fan.reply = Reply("Ok", "", TRUE, <<RaceValue>>)
====
